---------------------------- MODULE Spec2Model ----------------------------
(***************************************************************************)
(* A model of probepal's markdown round-trip pipeline: the find/replace    *)
(* session, the table extractor and the export orchestration of            *)
(* src/components/EditableMarkdown.tsx, the table/chart toggle of          *)
(* TableChartToggle (src/unnamed/part_014), the generation request of the  *)
(* pages, the DOCX and PDF converters (src/unnamed/part_007) and the       *)
(* export quota (src/contexts/SubscriptionContext.tsx).                    *)
(*                                                                         *)
(* A text is a sequence of one-character strings; offsets are 0-based as   *)
(* in the source, so the character at offset p is text[p + 1].             *)
(***************************************************************************)
EXTENDS Integers, Sequences, FiniteSets, TLC

VARIABLES
    \* ---- pure-function harness (one call of a function per behaviour)
    fnPc,              \* "in" | "found" | "once" | "twice"
    fnText,            \* input text
    fnNeedle,          \* input searchStr / findText
    fnRepl,            \* input replaceText
    fnPositions,       \* result of findAllOccurrences
    fnOnce,            \* text after the first replaceAll
    fnTwice,           \* text after the second replaceAll
    \* ---- Editable Document Controller: the find/replace session
    editMode,          \* useState editMode
    editableContent,   \* useState editableContent: the Document
    findText,          \* useState findText
    replaceText,       \* useState replaceText
    matches,           \* useState matches
    matchCount,        \* useState matchCount
    currentMatch,      \* useState currentMatch
    timers,            \* pending setTimeout(..., 0) callbacks of replaceCurrent, oldest first
    listenerText,      \* what onContentChange delivered last
    replaces,          \* how many replace operations have run
    \* ---- Table Extractor harness
    exPc,              \* "in" | "done"
    exLines,           \* the lines the markdown was written from
    exTables,          \* result of extractTables
    \* ---- preview toggles and the export orchestration
    mounted,           \* the table placeholder mount effect has run
    containers,        \* the [data-table-index] containers, in DOM order
    exportPc,          \* "idle" | "capture" | "pack" | "blob": where the export is
    exportKind,        \* "none" | "docx" | "pdf"
    exportI,           \* the loop variable i of the handler
    exportBase,        \* editableContent as the handler's closure holds it
    tempContent,       \* the handler's scratch copy
    captures,          \* per container, what the loop met: "pending" | "table" | "image" | "null"
    exported,          \* the markdown handed to the exporter
    exportOutcome,     \* "none" | "saved" | "failed"
    exportAlerts,      \* the alert() calls of the export since its click
    extraExports,      \* the exports started by clicks made while one was outstanding
    \* ---- one TableChartToggle
    tgPc,              \* "idle" | "mounted" | "ready": before / after the column init effect
    tableData,         \* the tableData prop: the rows of one extracted table
    tableKeys,         \* Object.keys(tableData[0]), <<>> without a row
    showChart,         \* useState showChart
    chartType,         \* useState chartType
    selectedLabelColumn,   \* useState selectedLabelColumn, <<>> for ''
    selectedValueColumns,  \* useState selectedValueColumns
    chartData,         \* the data prop the Chart got in the last render, <<>> in table view
    \* ---- the render pipeline of EditableMarkdown
    rdPc,              \* "idle" | "constructed" | "live": before / after the first effects
    contentProp,       \* the content prop
    tables,            \* useState tables
    renderedHtml,      \* useState renderedHtml
    renders,           \* the renderMarkdown calls waiting at their await
    preview,           \* the preview DOM: per placeholder, its block and the toggle mounted on it
    \* --- the generation request of the two pages ---
    genPage,           \* which page's handleGenerate runs: "analysis" (streamed) or "home" (one response)
    genPc,             \* where handleGenerate waits: "idle", "tracking", "fetching", "reading", "posting"
    generatedContent,  \* useState generatedContent: the Document handed to the editor
    isGenerating,      \* useState isGenerating
    streamContent,     \* the local `content` accumulated from the stream
    genAlert,          \* the text of the last alert() of the request, "" when none
    \* --- markdownToDocx applied to a text ---
    cvPc,              \* "in": before the conversion, "done": after it
    cvLines,           \* the lines of the markdown text
    cvDocx,            \* the children markdownToDocx hands to addSection
    \* --- markdownToPdf, one iteration of its line loop per step ---
    pdfY,              \* yPos, in hundredths of a point
    pdfPage,           \* the page being written, from 1
    pdfRows,           \* inTable and tableData: -1 outside a table, else the rows held
    pdfDrawn,          \* what the last iteration drew
    \* --- calculateChartDimensions applied to natural dimensions ---
    dimPc,             \* "in" | "done"
    dimIn,             \* originalWidth, originalHeight
    dimOut,            \* the width and height returned
    \* --- the window.__chartInstances registry ---
    chartInstances,    \* window.__chartInstances: per entry, the toggle whose chart it holds
    tagTimers,         \* the toggles of the pending 500 ms tagging callbacks, oldest first
    chartIndex,        \* per toggle, the __chartIndex on its tagged element, -1 when unset
    \* --- trackDocumentExport of the subscription context ---
    planName,          \* subscription.plan_name
    exportRecords,     \* rows of document_exports of the user in the current month
    trackCalls         \* per call of trackDocumentExport: where it is, what it read, what it returned

fnVars == <<fnPc, fnText, fnNeedle, fnRepl, fnPositions, fnOnce, fnTwice>>

findVars == <<editMode, editableContent, findText, replaceText, matches,
              matchCount, currentMatch, timers, listenerText, replaces>>

exVars == <<exPc, exLines, exTables>>

exportVars == <<mounted, containers, exportPc, exportKind, exportI, exportBase,
                tempContent, captures, exported, exportOutcome, exportAlerts,
                extraExports>>

toggleVars == <<tgPc, tableData, tableKeys, showChart, chartType,
                selectedLabelColumn, selectedValueColumns, chartData>>

renderVars == <<rdPc, contentProp, tables, renderedHtml, renders, preview>>

genVars == <<genPage, genPc, generatedContent, isGenerating, streamContent, genAlert>>

cvVars == <<cvPc, cvLines, cvDocx>>

pdfVars == <<pdfY, pdfPage, pdfRows, pdfDrawn>>

dimVars == <<dimPc, dimIn, dimOut>>

regVars == <<chartInstances, tagTimers, chartIndex>>

quotaVars == <<planName, exportRecords, trackCalls>>

\* the parts below the generation request
laterVars == <<cvVars, pdfVars, dimVars, regVars, quotaVars>>

vars == <<fnVars, findVars, exVars, exportVars, toggleVars, renderVars, genVars,
          laterVars>>

\* what the actions of one part leave alone
notFnVars == <<findVars, exVars, exportVars, toggleVars, renderVars, genVars, laterVars>>
notFindVars == <<fnVars, exVars, exportVars, toggleVars, renderVars, genVars, laterVars>>
notExVars == <<fnVars, findVars, exportVars, toggleVars, renderVars, genVars, laterVars>>
notExportVars == <<fnVars, findVars, exVars, toggleVars, renderVars, genVars, laterVars>>
notToggleVars == <<fnVars, findVars, exVars, exportVars, renderVars, genVars, laterVars>>
\* the render pipeline shares editMode and editableContent with the find session
notRenderVars == <<fnVars, exVars, exportVars, toggleVars, genVars, laterVars>>
notGenVars == <<fnVars, findVars, exVars, exportVars, toggleVars, renderVars,
                laterVars>>
earlierVars == <<fnVars, findVars, exVars, exportVars, toggleVars, renderVars, genVars>>
notCvVars == <<earlierVars, pdfVars, dimVars, regVars, quotaVars>>
notPdfVars == <<earlierVars, cvVars, dimVars, regVars, quotaVars>>
notDimVars == <<earlierVars, cvVars, pdfVars, regVars, quotaVars>>
notRegVars == <<earlierVars, cvVars, pdfVars, dimVars, quotaVars>>
notQuotaVars == <<earlierVars, cvVars, pdfVars, dimVars, regVars>>

---------------------------------------------------------------------------
(* Bounds *)

MaxFnText == 4         \* longest input text of the pure-function harness
MaxFnNeedle == 2       \* longest needle / replacement of the harness
MaxText == 11          \* longest Document text of the find/replace session
MaxTimers == 1         \* most replaceCurrent callbacks pending at once
MaxReplaces == 2       \* most replace operations in one behaviour
MaxLines == 5          \* most lines of a markdown text given to extractTables
MaxTables == 3         \* most tables of an exported document
MaxExtraExports == 1   \* most exports started while another one is outstanding

---------------------------------------------------------------------------
(* Strings *)

Min(S) == CHOOSE x \in S : \A y \in S : x <= y

\* All texts over alphabet A of length 0..n
Strings(A, n) == UNION {[1..k -> A] : k \in 0..n}

Clamp(x, len) == IF x < 0 THEN 0 ELSE IF x > len THEN len ELSE x

\* JS String.prototype.substring(from, to), 0-based, to exclusive: both ends
\* are clamped to the text and swapped when from > to
Substring(text, from, to) ==
    LET a == Clamp(from, Len(text))
        b == Clamp(to, Len(text))
    IN  IF a <= b THEN SubSeq(text, a + 1, b) ELSE SubSeq(text, b + 1, a)

\* substring(from): to the end of the text
SubstringFrom(text, from) == Substring(text, from, Len(text))

\* s occurs in text at 0-based offset p
OccursAt(text, s, p) ==
    /\ p >= 0
    /\ p + Len(s) <= Len(text)
    /\ \A i \in 1..Len(s) : text[p + i] = s[i]

\* JS String.prototype.indexOf(s, from): the first offset >= from, or -1
IndexOf(text, s, from) ==
    LET cands == {p \in from..(Len(text) - Len(s)) : OccursAt(text, s, p)}
    IN  IF cands = {} THEN -1 ELSE Min(cands)

Contains(text, s) == IndexOf(text, s, 0) # -1

Chars(text) == {text[i] : i \in 1..Len(text)}

\* JS String.prototype.split(sep) for a non-empty separator
RECURSIVE Split(_, _)
Split(text, sep) ==
    LET p == IndexOf(text, sep, 0)
    IN  IF p = -1 THEN <<text>>
        ELSE <<Substring(text, 0, p)>> \o Split(SubstringFrom(text, p + Len(sep)), sep)

\* JS Array.prototype.join(glue)
RECURSIVE Join(_, _)
Join(parts, glue) ==
    IF Len(parts) = 0 THEN <<>>
    ELSE IF Len(parts) = 1 THEN parts[1]
    ELSE parts[1] \o glue \o Join(Tail(parts), glue)

\* JS String.prototype.replace(pattern, by) with a string pattern: the first
\* occurrence only
ReplaceFirst(text, pattern, by) ==
    LET p == IndexOf(text, pattern, 0)
    IN  IF p = -1 THEN text
        ELSE Substring(text, 0, p) \o by \o SubstringFrom(text, p + Len(pattern))


\* the character at 0-based offset p, "" past the end
CharAt(text, p) == IF p >= 0 /\ p < Len(text) THEN text[p + 1] ELSE ""

\* the regex class \s, as far as the texts of this model go
IsSpace(c) == c \in {" ", "\n", "\t", "\r"}

\* JS String.prototype.trim()
RECURSIVE TrimStart(_)
TrimStart(text) ==
    IF text # <<>> /\ IsSpace(Head(text)) THEN TrimStart(Tail(text)) ELSE text

RECURSIVE TrimEnd(_)
TrimEnd(text) ==
    IF text # <<>> /\ IsSpace(text[Len(text)])
    THEN TrimEnd(SubSeq(text, 1, Len(text) - 1)) ELSE text

Trim(text) == TrimEnd(TrimStart(text))

\* Array.prototype.map, for an operator of one argument
Map(Op(_), seq) == [i \in 1..Len(seq) |-> Op(seq[i])]

NL == <<"\n">>

\* the lines of a text, put together again
JoinLines(lines) == Join(lines, NL)

Digits == {"0", "1", "2", "3", "4", "5", "6", "7", "8", "9"}

DigitValue(c) ==
    CASE c = "0" -> 0 [] c = "1" -> 1 [] c = "2" -> 2 [] c = "3" -> 3
      [] c = "4" -> 4 [] c = "5" -> 5 [] c = "6" -> 6 [] c = "7" -> 7
      [] c = "8" -> 8 [] c = "9" -> 9

IsDigits(text) == text # <<>> /\ \A i \in 1..Len(text) : text[i] \in Digits

RECURSIVE DigitsValue(_)
DigitsValue(text) ==
    IF text = <<>> THEN 0
    ELSE 10 * DigitsValue(SubSeq(text, 1, Len(text) - 1)) + DigitValue(text[Len(text)])

\* isNaN(Number(value)) for a trimmed, non-empty cell: the decimal integers,
\* signed or not, are the numerals the texts of this model can spell
IsNumeral(value) ==
    \/ IsDigits(value)
    \/ /\ Len(value) >= 2
       /\ value[1] \in {"-", "+"}
       /\ IsDigits(Tail(value))

\* Number(value) of a numeral
NumberOf(value) ==
    IF IsDigits(value) THEN DigitsValue(value)
    ELSE IF value[1] = "-" THEN 0 - DigitsValue(Tail(value))
    ELSE DigitsValue(Tail(value))

---------------------------------------------------------------------------
(* Find and replace: the pure parts *)

\* the while loop of findAllOccurrences
RECURSIVE FindLoop(_, _, _, _)
FindLoop(text, searchStr, pos, positions) ==
    IF pos = -1 THEN positions
    ELSE FindLoop(text, searchStr, IndexOf(text, searchStr, pos + 1),
                  Append(positions, pos))

FindAllOccurrences(text, searchStr) ==
    IF searchStr = <<>> THEN <<>>
    ELSE FindLoop(text, searchStr, IndexOf(text, searchStr, 0), <<>>)

\* a replaceAll that replaces the first occurrence only
ReplaceAllTextFirstOnly(text, needle, repl) ==
    ReplaceFirst(text, needle, repl)

\* newContent of replaceAll: editableContent.split(findText).join(replaceText)
ReplaceAllText(text, needle, repl) ==
    Join(Split(text, needle), repl)

---------------------------------------------------------------------------
(* The state of each part before it is used: a specification that does not *)
(* exercise a part leaves it here.                                         *)

\* EditableMarkdown's useState initial values, for the content prop `content`
FindInitial(content) ==
    /\ editMode = FALSE
    /\ editableContent = content
    /\ findText = <<>>
    /\ replaceText = <<>>
    /\ matches = <<>>
    /\ matchCount = 0
    /\ currentMatch = 0
    /\ timers = <<>>
    /\ listenerText = <<>>
    /\ replaces = 0

FindIdle == FindInitial(<<>>)

ExIdle ==
    /\ exPc = "in"
    /\ exLines = <<>>
    /\ exTables = <<>>

ExportIdle ==
    /\ mounted = FALSE
    /\ containers = <<>>
    /\ exportPc = "idle"
    /\ exportKind = "none"
    /\ exportI = 0
    /\ exportBase = <<>>
    /\ tempContent = <<>>
    /\ captures = <<>>
    /\ exported = <<>>
    /\ exportOutcome = "none"
    /\ exportAlerts = 0
    /\ extraExports = 0

\* the rendered HTML as this model keeps it: the text it was made of and,
\* per placeholder, the table block the placeholder took the place of
Html(source, placeholders) == [source |-> source, placeholders |-> placeholders]

\* useState('') of renderedHtml
NoHtml == Html(<<>>, <<>>)

RenderInitial ==
    /\ tables = <<>>
    /\ renderedHtml = NoHtml
    /\ renders = {}
    /\ preview = <<>>

RenderIdle ==
    /\ rdPc = "idle"
    /\ contentProp = <<>>
    /\ RenderInitial

\* no generation request has been made
GenIdle ==
    /\ genPage = "analysis"
    /\ genPc = "idle"
    /\ generatedContent = <<>>
    /\ isGenerating = FALSE
    /\ streamContent = <<>>
    /\ genAlert = ""

CvIdle ==
    /\ cvPc = "in"
    /\ cvLines = <<>>
    /\ cvDocx = <<>>

\* markdownToPdf not called
PdfIdle ==
    /\ pdfY = 0
    /\ pdfPage = 0
    /\ pdfRows = -1
    /\ pdfDrawn = <<>>

DimIdle ==
    /\ dimPc = "in"
    /\ dimIn = <<>>
    /\ dimOut = <<>>

\* no chart has become ready
RegIdle ==
    /\ chartInstances = <<>>
    /\ tagTimers = <<>>
    /\ chartIndex = <<>>

QuotaIdle ==
    /\ planName = "Free"
    /\ exportRecords = 0
    /\ trackCalls = <<>>

LaterIdle == CvIdle /\ PdfIdle /\ DimIdle /\ RegIdle /\ QuotaIdle

\* TableChartToggle's useState initial values
ToggleInitial ==
    /\ showChart = FALSE
    /\ chartType = "ColumnChart"
    /\ selectedLabelColumn = <<>>
    /\ selectedValueColumns = <<>>
    /\ chartData = <<>>

ToggleIdle ==
    /\ tgPc = "idle"
    /\ tableData = <<>>
    /\ tableKeys = <<>>
    /\ ToggleInitial

FnIdle ==
    /\ fnPc = "in"
    /\ fnText = <<>>
    /\ fnNeedle = <<>>
    /\ fnRepl = <<>>
    /\ fnPositions = <<>>
    /\ fnOnce = <<>>
    /\ fnTwice = <<>>

EarlierIdle ==
    FnIdle /\ FindIdle /\ ExIdle /\ ExportIdle /\ ToggleIdle /\ RenderIdle /\ GenIdle

---------------------------------------------------------------------------
(* The pure-function harness: inputs drawn from bounded sets, one action   *)
(* per function applied.                                                   *)

FnAlphabet == {"a", "b"}

FnInit ==
    /\ fnPc = "in"
    /\ fnText \in Strings(FnAlphabet, MaxFnText)
    /\ fnNeedle \in Strings(FnAlphabet, MaxFnNeedle)
    /\ fnRepl \in Strings(FnAlphabet, MaxFnNeedle)
    /\ fnPositions = <<>>
    /\ fnOnce = <<>>
    /\ fnTwice = <<>>
    /\ FindIdle
    /\ ExIdle
    /\ ExportIdle
    /\ ToggleIdle
    /\ RenderIdle
    /\ GenIdle
    /\ LaterIdle

FnFind ==
    /\ fnPc = "in"
    /\ fnPositions' = FindAllOccurrences(fnText, fnNeedle)
    /\ fnPc' = "found"
    /\ UNCHANGED <<fnText, fnNeedle, fnRepl, fnOnce, fnTwice>>
    /\ UNCHANGED notFnVars

\* replaceAll returns early on an empty findText
FnReplaceAllOnce ==
    /\ fnPc = "in"
    /\ fnNeedle # <<>>
    /\ fnOnce' = ReplaceAllText(fnText, fnNeedle, fnRepl)
    /\ fnPc' = "once"
    /\ UNCHANGED <<fnText, fnNeedle, fnRepl, fnPositions, fnTwice>>
    /\ UNCHANGED notFnVars

FnReplaceAllTwice ==
    /\ fnPc = "once"
    /\ fnTwice' = ReplaceAllText(fnOnce, fnNeedle, fnRepl)
    /\ fnPositions' = FindAllOccurrences(fnOnce, fnNeedle)
    /\ fnPc' = "twice"
    /\ UNCHANGED <<fnText, fnNeedle, fnRepl, fnOnce>>
    /\ UNCHANGED notFnVars

FnNext == FnFind \/ FnReplaceAllOnce \/ FnReplaceAllTwice

SpecFn == FnInit /\ [][FnNext]_vars

---------------------------------------------------------------------------
(* C6 *)

\* the left-to-right scan for non-overlapping occurrences the claim describes
RECURSIVE NonOverlappingScan(_, _, _)
NonOverlappingScan(text, searchStr, from) ==
    LET p == IndexOf(text, searchStr, from)
    IN  IF p = -1 THEN <<>>
        ELSE <<p>> \o NonOverlappingScan(text, searchStr, p + Len(searchStr))

\* C6: for a non-empty needle findAllOccurrences returns exactly the offsets
\* of the left-to-right non-overlapping scan, strictly increasing, any two
\* at least the needle's length apart; for an empty needle it returns <<>>.
C6_FindNonOverlapping ==
    fnPc = "found" =>
        IF fnNeedle = <<>> THEN fnPositions = <<>>
        ELSE /\ fnPositions = NonOverlappingScan(fnText, fnNeedle, 0)
             /\ \A i \in 1..(Len(fnPositions) - 1) :
                    fnPositions[i + 1] - fnPositions[i] >= Len(fnNeedle)

---------------------------------------------------------------------------
(* C10 *)

\* C10 as stated: for a non-empty needle and a replacement that does not
\* contain the needle, a second replaceAll on the output of the first finds
\* no occurrence and leaves the text unchanged.
C10_IdempotentAsStated ==
    (fnPc = "twice" /\ ~Contains(fnRepl, fnNeedle)) =>
        (fnPositions = <<>> /\ fnTwice = fnOnce)

\* C10 amended: the same for a non-empty replacement that has no character
\* in common with the needle.
C10_IdempotentDisjoint ==
    (fnPc = "twice" /\ fnRepl # <<>> /\ Chars(fnRepl) \cap Chars(fnNeedle) = {}) =>
        (fnPositions = <<>> /\ fnTwice = fnOnce)

\* a second replaceAll has run on a text whose first pass replaced something
C10_Witness ==
    /\ fnPc = "twice"
    /\ fnRepl # <<>>
    /\ Chars(fnRepl) \cap Chars(fnNeedle) = {}
    /\ Len(fnNeedle) = 2
    /\ fnOnce # fnText
    /\ Len(Split(fnText, fnNeedle)) >= 3

---------------------------------------------------------------------------
(* The find/replace session of EditableMarkdown.  A handler's action takes *)
(* in the render that follows it and the effects that render runs; a       *)
(* setTimeout callback is an action of its own.                            *)

CatCatCat == <<"c", "a", "t", " ", "c", "a", "t", " ", "c", "a", "t">>

FindTexts == {<<"a", "a", "a">>, CatCatCat}
FindNeedles == {<<>>, <<"a", "a">>, <<"c", "a", "t">>}
FindRepls == {<<"a">>, <<"d", "o", "g">>}

\* the three states a find step writes
FindState == [matches |-> matches, matchCount |-> matchCount,
              currentMatch |-> currentMatch]

Commit(st) ==
    /\ matches' = st.matches
    /\ matchCount' = st.matchCount
    /\ currentMatch' = st.currentMatch

\* highlightMatches, called with the text, findText and currentMatch its
\* closure holds; textarea: whether textareaRef.current is set; st: the
\* states as written so far in this batch
HighlightMatches(text, needle, cur, textarea, st) ==
    IF ~textarea \/ needle = <<>> THEN st
    ELSE LET positions == FindAllOccurrences(text, needle)
         IN  [matches |-> positions,
              matchCount |-> Len(positions),
              currentMatch |-> IF Len(positions) > 0 /\ cur >= Len(positions)
                               THEN 0 ELSE st.currentMatch]

\* the effect on [findText, editMode, editableContent], after a render in
\* which one of them changed
HighlightEffect(changed, mode, text, needle, st) ==
    IF changed /\ needle # <<>> /\ mode
    THEN HighlightMatches(text, needle, st.currentMatch, mode, st)
    ELSE st

\* the Edit / Preview tabs
SetEditMode(b) ==
    /\ editMode' = b
    /\ Commit(HighlightEffect(b # editMode, b, editableContent, findText, FindState))
    /\ UNCHANGED <<editableContent, findText, replaceText, timers, listenerText,
                   replaces>>
    /\ UNCHANGED notFindVars

\* the "Find text..." input of the dialog, which edit mode shows
SetFindText(needle) ==
    /\ editMode
    /\ findText' = needle
    /\ Commit(HighlightEffect(needle # findText, editMode, editableContent, needle,
                              FindState))
    /\ UNCHANGED <<editMode, editableContent, replaceText, timers, listenerText,
                   replaces>>
    /\ UNCHANGED notFindVars

\* the "Replace with..." input
SetReplaceText(repl) ==
    /\ editMode
    /\ replaceText' = repl
    /\ UNCHANGED <<editMode, editableContent, findText, matches, matchCount,
                   currentMatch, timers, listenerText, replaces>>
    /\ UNCHANGED notFindVars

\* the textarea's onChange
HandleContentChange(newContent) ==
    /\ editMode
    /\ editableContent' = newContent
    /\ listenerText' = newContent
    /\ Commit(HighlightEffect(newContent # editableContent, editMode, newContent,
                              findText, FindState))
    /\ UNCHANGED <<editMode, findText, replaceText, timers, replaces>>
    /\ UNCHANGED notFindVars

\* findNext / findPrevious: step is +1 or -1.  The buttons are disabled
\* while matchCount is 0.
FindStep(step) ==
    /\ editMode
    /\ matchCount # 0
    /\ IF Len(matches) = 0
       THEN UNCHANGED <<matches, matchCount, currentMatch>>
       ELSE LET n == Len(matches)
                target == (currentMatch + step + n) % n
            IN  Commit(HighlightMatches(editableContent, findText, currentMatch,
                                        editMode,
                                        [FindState EXCEPT !.currentMatch = target]))
    /\ UNCHANGED <<editMode, editableContent, findText, replaceText, timers,
                   listenerText, replaces>>
    /\ UNCHANGED notFindVars

FindNext == FindStep(1)

FindPrevious == FindStep(-1)

\* newContent of replaceCurrent.  matches[currentMatch] is undefined past the
\* end of the list: substring(0, undefined) is the whole text and
\* substring(NaN) is the whole text again.
ReplaceCurrentText(text, ms, cur, needle, repl) ==
    IF cur >= Len(ms) THEN text \o repl \o text
    ELSE LET startPos == ms[cur + 1]
             endPos == startPos + Len(needle)
         IN  Substring(text, 0, startPos) \o repl \o SubstringFrom(text, endPos)

\* replaceCurrent up to its setTimeout, and the render after it
ReplaceCurrent ==
    /\ editMode
    /\ matchCount # 0
    /\ Len(matches) # 0
    /\ Len(timers) < MaxTimers
    /\ replaces < MaxReplaces
    /\ replaces' = replaces + 1
    /\ LET newContent == ReplaceCurrentText(editableContent, matches, currentMatch,
                                            findText, replaceText)
       IN  /\ Len(newContent) <= MaxText
           /\ editableContent' = newContent
           /\ timers' = Append(timers, [newContent |-> newContent,
                                        findText |-> findText,
                                        currentMatch |-> currentMatch,
                                        editableContent |-> editableContent])
           /\ Commit(HighlightEffect(newContent # editableContent, editMode,
                                     newContent, findText, FindState))
    /\ UNCHANGED <<editMode, findText, replaceText, listenerText>>
    /\ UNCHANGED notFindVars

\* the callback replaceCurrent handed to setTimeout: c holds the values of
\* the render replaceCurrent was called in, highlightMatches included
ReplaceCurrentDeferred(c, textarea, st) ==
    LET newMatches == FindAllOccurrences(c.newContent, c.findText)
        st1 == [matches |-> newMatches,
                matchCount |-> Len(newMatches),
                currentMatch |-> IF c.currentMatch >= Len(newMatches)
                                 THEN (IF Len(newMatches) - 1 > 0
                                       THEN Len(newMatches) - 1 ELSE 0)
                                 ELSE st.currentMatch]
    IN  IF Len(newMatches) > 0
        THEN HighlightMatches(c.editableContent, c.findText, c.currentMatch,
                              textarea, st1)
        ELSE st1

TimerFire ==
    /\ timers # <<>>
    /\ LET c == Head(timers)
       IN  /\ Commit(ReplaceCurrentDeferred(c, editMode, FindState))
           /\ listenerText' = c.newContent
    /\ timers' = Tail(timers)
    /\ UNCHANGED <<editMode, editableContent, findText, replaceText, replaces>>
    /\ UNCHANGED notFindVars

\* replaceAll, and the render after it
ReplaceAll ==
    /\ editMode
    /\ matchCount # 0
    /\ replaces < MaxReplaces
    /\ replaces' = replaces + 1
    /\ IF findText = <<>>
       THEN UNCHANGED <<editableContent, listenerText, matches, matchCount,
                        currentMatch>>
       ELSE LET newContent == ReplaceAllText(editableContent, findText, replaceText)
            IN  /\ Len(newContent) <= MaxText
                /\ editableContent' = newContent
                /\ listenerText' = newContent
                /\ Commit(HighlightEffect(newContent # editableContent, editMode,
                                          newContent, findText,
                                          [matches |-> <<>>, matchCount |-> 0,
                                           currentMatch |-> 0]))
    /\ UNCHANGED <<editMode, findText, replaceText, timers>>
    /\ UNCHANGED notFindVars

FindInit ==
    /\ \E content \in FindTexts : FindInitial(content)
    /\ FnIdle
    /\ ExIdle
    /\ ExportIdle
    /\ ToggleIdle
    /\ RenderIdle
    /\ GenIdle
    /\ LaterIdle

FindNext_ ==
    \/ \E b \in BOOLEAN : SetEditMode(b)
    \/ \E needle \in FindNeedles : SetFindText(needle)
    \/ \E repl \in FindRepls : SetReplaceText(repl)
    \/ \E newContent \in FindTexts : HandleContentChange(newContent)
    \/ FindNext
    \/ FindPrevious
    \/ ReplaceCurrent
    \/ TimerFire
    \/ ReplaceAll

SpecFind == FindInit /\ [][FindNext_]_vars

---------------------------------------------------------------------------
(* The Table Extractor: extractTables *)

\* the class [\s:-] of the table regex
IsSepChar(c) == IsSpace(c) \/ c \in {":", "-"}

\* the first offset >= p that does not hold a character of [\s:-]
RECURSIVE SkipSepChars(_, _)
SkipSepChars(text, p) ==
    IF p < Len(text) /\ IsSepChar(text[p + 1]) THEN SkipSepChars(text, p + 1) ELSE p

\* /\|[^\n]*\|[^\n]*\n\|[\s:-]*\|[\s:-]*\|[\s\S]*?(?=\n\n|$)/ tried at offset
\* p: the offset its match ends at, or -1
TableMatchEnd(text, p) ==
    IF CharAt(text, p) # "|" THEN -1
    ELSE LET nl == IndexOf(text, NL, p + 1)
         IN  IF nl = -1 THEN -1
             ELSE IF ~\E q \in (p + 1)..(nl - 1) : CharAt(text, q) = "|" THEN -1
             ELSE IF CharAt(text, nl + 1) # "|" THEN -1
             ELSE LET a == SkipSepChars(text, nl + 2)
                  IN  IF CharAt(text, a) # "|" THEN -1
                      ELSE LET b == SkipSepChars(text, a + 1)
                           IN  IF CharAt(text, b) # "|" THEN -1
                               ELSE LET blank == IndexOf(text, <<"\n", "\n">>, b + 1)
                                    IN  IF blank = -1 THEN Len(text) ELSE blank

\* String.prototype.match with the g flag: every match, left to right, each
\* search starting where the last match ended
RECURSIVE TableMatchesFrom(_, _)
TableMatchesFrom(text, from) ==
    LET starts == {p \in from..(Len(text) - 1) : TableMatchEnd(text, p) # -1}
    IN  IF starts = {} THEN <<>>
        ELSE LET p == Min(starts)
                 e == TableMatchEnd(text, p)
             IN  <<Substring(text, p, e)>> \o TableMatchesFrom(text, e)

TableMatches(text) == TableMatchesFrom(text, 0)

\* line.split('|').filter(cell => cell.trim() !== '').map(cell => cell.trim())
NotBlank(text) == Trim(text) # <<>>

SplitCells(line) == Map(Trim, SelectSeq(Split(line, <<"|">>), NotBlank))

\* isNaN(numValue) ? value : numValue
Coerce(value) ==
    IF IsNumeral(value) THEN [t |-> "number", v |-> NumberOf(value)]
    ELSE [t |-> "string", v |-> value]

\* rowData: headers.forEach assigns rowData[header] in order, so the last
\* column of a repeated header stays
RowData(headers, rowCells) ==
    [h \in {headers[i] : i \in 1..Len(headers)} |->
        Coerce(rowCells[CHOOSE i \in 1..Len(headers) :
                            /\ headers[i] = h
                            /\ \A j \in 1..Len(headers) : headers[j] = h => j <= i])]

\* the first offset >= p that does not hold a character of \s
RECURSIVE SkipSpaces(_, _)
SkipSpaces(text, p) ==
    IF p < Len(text) /\ IsSpace(text[p + 1]) THEN SkipSpaces(text, p + 1) ELSE p

NoOptionsMatch == [group |-> <<>>, end |-> -1]

\* /<!--\s*chart-options\s*(\{[^}]+\})\s*-->/ tried at offset p: its group 1
\* and the offset the match ends at.  "<!--", "chart-options" and "-->" are
\* one character each in the texts of this model.
OptionsMatchAt(text, p) ==
    IF CharAt(text, p) # "<!--" THEN NoOptionsMatch
    ELSE LET a == SkipSpaces(text, p + 1)
         IN  IF CharAt(text, a) # "chart-options" THEN NoOptionsMatch
             ELSE LET b == SkipSpaces(text, a + 1)
                      c == IndexOf(text, <<"}">>, b + 1)
                  IN  IF CharAt(text, b) # "{" \/ c = -1 \/ c = b + 1
                      THEN NoOptionsMatch
                      ELSE LET d == SkipSpaces(text, c + 1)
                           IN  IF CharAt(text, d) # "-->" THEN NoOptionsMatch
                               ELSE [group |-> Substring(text, b, c + 1),
                                     end |-> d + 1]

\* JSON.parse of `{` member `}`: the object, or a SyntaxError.  A member is
\* one character in the texts of this model: "k":1 is JSON, k:1 is not.
JsonParse(group) ==
    IF group = <<"{", "\"k\":1", "}">>
    THEN [ok |-> TRUE, object |-> << <<"k", 1>> >>]
    ELSE [ok |-> FALSE, object |-> <<>>]

\* let chartOptions = {}; the comment is looked for inside the table match
\* (tableMatch.match, the first match), and a SyntaxError of JSON.parse is
\* caught and logged
ChartOptionsOf(tableMatch) ==
    LET found == {p \in 0..(Len(tableMatch) - 1) :
                      OptionsMatchAt(tableMatch, p) # NoOptionsMatch}
    IN  IF found = {} THEN <<>>
        ELSE LET parsed == JsonParse(OptionsMatchAt(tableMatch, Min(found)).group)
             IN  IF parsed.ok THEN parsed.object ELSE <<>>

\* the body of tableMatches.forEach for one match that has its two lines
TableEntry(tableMatch) ==
    LET lines == SelectSeq(Split(tableMatch, NL), NotBlank)
        headers == SplitCells(lines[1])
        kept == SelectSeq([i \in 1..(Len(lines) - 2) |-> SplitCells(lines[i + 2])],
                          LAMBDA rowCells : Len(rowCells) = Len(headers))
    IN  [headers |-> headers,
         data |-> [i \in 1..Len(kept) |-> RowData(headers, kept[i])],
         options |-> ChartOptionsOf(tableMatch)]

HasTwoLines(tableMatch) == Len(SelectSeq(Split(tableMatch, NL), NotBlank)) >= 2

ExtractTables(markdown) ==
    Map(TableEntry, SelectSeq(TableMatches(markdown), HasTwoLines))

---------------------------------------------------------------------------
(* The extractor harness: a markdown text written from up to MaxLines      *)
(* lines, extractTables applied to it.                                     *)

ExtractLines == {
    <<"|", "a", "|", "b", "|">>,            \* a row of two cells
    <<"|", "-", "|", "-", "|">>,            \* a separator of two cells
    <<"|", "1", "|", "2", "|">>,            \* a row of two numerals
    <<"|", "1", "|">>,                      \* a row of one cell
    <<"|", "-", "|">>,                      \* a separator of one cell
    <<"|", "1", "|", "|", "2", "|">>,       \* a row with an empty second cell
    <<>>,                                   \* a blank line
    <<"#", " ", "h">>,                      \* a heading
    <<"<!--", "chart-options", "{", "\"k\":1", "}", "-->">>,   \* an annotation
    <<"<!--", "chart-options", "{", "k:1", "}", "-->">> }      \* one that is not JSON

ExMarkdown == JoinLines(exLines)

ExInit ==
    /\ exPc = "in"
    /\ exLines \in UNION {[1..k -> ExtractLines] : k \in 1..MaxLines}
    /\ exTables = <<>>
    /\ FnIdle
    /\ FindIdle
    /\ ExportIdle
    /\ ToggleIdle
    /\ RenderIdle
    /\ GenIdle
    /\ LaterIdle

ExExtract ==
    /\ exPc = "in"
    /\ exTables' = ExtractTables(ExMarkdown)
    /\ exPc' = "done"
    /\ UNCHANGED exLines
    /\ UNCHANGED notExVars

ExNext == ExExtract

SpecExtract == ExInit /\ [][ExNext]_vars

---------------------------------------------------------------------------
(* C4, C5: what the markdown text holds, read line by line *)

IsPipeLine(line) == CharAt(TrimStart(line), 0) = "|"

\* a row's cells as the claims count them: split on '|', trimmed, without
\* the empty cell before the first '|' and the one after the last
EdgeTrimmedCells(line) ==
    LET cells == Map(Trim, Split(line, <<"|">>))
        a == IF Len(cells) > 0 /\ cells[1] = <<>> THEN 2 ELSE 1
        b == IF Len(cells) >= a /\ cells[Len(cells)] = <<>> THEN Len(cells) - 1
             ELSE Len(cells)
    IN  SubSeq(cells, a, b)

IsDelimiterCell(cell) == cell # <<>> /\ Chars(cell) \subseteq {"-", ":"}

IsDelimiterRow(line) ==
    /\ IsPipeLine(line)
    /\ EdgeTrimmedCells(line) # <<>>
    /\ \A i \in 1..Len(EdgeTrimmedCells(line)) :
           IsDelimiterCell(EdgeTrimmedCells(line)[i])

\* the last line of the run of pipe lines that starts at line i
RECURSIVE PipeRunEnd(_, _)
PipeRunEnd(lines, i) ==
    IF i < Len(lines) /\ IsPipeLine(lines[i + 1]) THEN PipeRunEnd(lines, i + 1) ELSE i

\* the runs of pipe lines of a text, in order; a run is a table when it
\* opens with a header row and a delimiter row of as many cells
RECURSIVE PipeRuns(_, _)
PipeRuns(lines, i) ==
    IF i > Len(lines) THEN <<>>
    ELSE IF ~IsPipeLine(lines[i]) THEN PipeRuns(lines, i + 1)
    ELSE LET last == PipeRunEnd(lines, i)
         IN  <<[first |-> i,
                last |-> last,
                table |-> /\ last > i
                          /\ ~IsDelimiterRow(lines[i])
                          /\ IsDelimiterRow(lines[i + 1])
                          /\ Len(EdgeTrimmedCells(lines[i]))
                               = Len(EdgeTrimmedCells(lines[i + 1]))]>>
             \o PipeRuns(lines, last + 1)

\* well-formed: every run of pipe lines is a table
WellFormed(lines) ==
    \A k \in 1..Len(PipeRuns(lines, 1)) : PipeRuns(lines, 1)[k].table

\* the rows the claimed rule keeps of the table that is run r
ClaimedData(lines, r) ==
    LET headers == EdgeTrimmedCells(lines[r.first])
        body == [i \in 1..(r.last - r.first - 1) |->
                    EdgeTrimmedCells(lines[r.first + 1 + i])]
        kept == SelectSeq(body, LAMBDA cells : Len(cells) = Len(headers))
    IN  [i \in 1..Len(kept) |-> RowData(headers, kept[i])]

\* C4: for a well-formed markdown text that holds N pipe-tables, placed
\* anywhere among other lines, extractTables returns exactly N entries in
\* document order, and every retained row has as many values as the table
\* has headers.
C4_TableCountAndShapeAsStated ==
    (exPc = "done" /\ WellFormed(exLines)) =>
        LET runs == PipeRuns(exLines, 1)
        IN  /\ Len(exTables) = Len(runs)
            /\ \A k \in 1..Len(exTables) :
                   /\ exTables[k].headers = EdgeTrimmedCells(exLines[runs[k].first])
                   /\ \A i \in 1..Len(exTables[k].data) :
                          Cardinality(DOMAIN exTables[k].data[i])
                              = Len(exTables[k].headers)

\* C5: a data row is among the extracted rows if and only if, split on '|',
\* trimmed and without its empty leading and trailing cells only, it has as
\* many cells as the header; a dropped row stops neither the rows nor the
\* tables after it.  Stated for the texts whose tables extractTables tells
\* apart.
C5_RowRetentionAsStated ==
    (exPc = "done" /\ WellFormed(exLines)
        /\ Len(exTables) = Len(PipeRuns(exLines, 1))) =>
        \A k \in 1..Len(exTables) :
            exTables[k].data = ClaimedData(exLines, PipeRuns(exLines, 1)[k])

---------------------------------------------------------------------------
(* C7 *)

\* the text with the needle's span at offset pos replaced
ReplacedAt(text, pos, needle, repl) ==
    Substring(text, 0, pos) \o repl \o SubstringFrom(text, pos + Len(needle))

\* the callback at the head of the queue belongs to the replacement that
\* produced the current text, and the needle is still the same
DeferredIsCurrent ==
    /\ timers # <<>>
    /\ Head(timers).newContent = editableContent
    /\ Head(timers).findText = findText

\* C7: with a non-empty match list and active index i, replaceCurrent
\* replaces only the occurrence at matches[i] by the replacement text, and
\* once its deferred update has run the stored match list equals the
\* occurrences of the needle in the new text.
C7_ReplaceCurrentAsStated ==
    [][ /\ (ReplaceCurrent /\ currentMatch < Len(matches)) =>
               /\ OccursAt(editableContent, findText, matches[currentMatch + 1])
               /\ editableContent' = ReplacedAt(editableContent,
                                                matches[currentMatch + 1],
                                                findText, replaceText)
        /\ (TimerFire /\ DeferredIsCurrent) =>
               matches' = FindAllOccurrences(editableContent', findText')
      ]_vars

\* C7's scenario: "cat cat cat", needle "cat", replacement "dog", index 1:
\* once the deferred update has run the text is "cat dog cat" and the match
\* list has length 2.
C7_CatScenarioAsStated ==
    [][ ( /\ TimerFire
          /\ DeferredIsCurrent
          /\ Head(timers).editableContent = CatCatCat
          /\ findText = <<"c", "a", "t">>
          /\ editableContent = <<"c", "a", "t", " ", "d", "o", "g", " ", "c", "a", "t">>
        ) => Len(matches') = 2
      ]_vars

---------------------------------------------------------------------------
(* C8 *)

\* C8: after replaceAll with a non-empty needle every occurrence of the
\* needle in the previous text has been replaced in one pass and, the state
\* updates and effects settled, the match list is empty, the match count is
\* 0 and the current match index is 0.
C8_ReplaceAllClearsAsStated ==
    [][ (ReplaceAll /\ findText # <<>>) =>
            /\ editableContent' = ReplaceAllText(editableContent, findText, replaceText)
            /\ matches' = <<>>
            /\ matchCount' = 0
            /\ currentMatch' = 0
      ]_vars

---------------------------------------------------------------------------
(* C9 *)

\* C9: with n > 0 matches findNext sets the active index to (i + 1) mod n
\* and findPrevious to (i - 1) mod n, and the index stays within the match
\* list; with n = 0 both change nothing.
C9_NavigationWrapsAsStated ==
    [][ /\ (FindNext /\ Len(matches) > 0) =>
               currentMatch' = (currentMatch + 1) % Len(matches)
        /\ (FindPrevious /\ Len(matches) > 0) =>
               currentMatch' = (currentMatch - 1 + Len(matches)) % Len(matches)
        /\ ((FindNext \/ FindPrevious) /\ Len(matches') > 0) =>
               currentMatch' \in 0..(Len(matches') - 1)
        /\ ((FindNext \/ FindPrevious) /\ Len(matches) = 0) =>
               UNCHANGED <<matches, matchCount, currentMatch>>
      ]_vars

---------------------------------------------------------------------------
(* The preview's table/chart toggles and the export orchestration:         *)
(* handleExportDocx and handleExportPdf run the same steps, and every      *)
(* await of the handler is a point where other handlers may run.           *)

\* the toggle's chart kinds this model offers in the select
ChartTypes == {"ColumnChart", "PieChart", "LineChart"}

TableAB == << <<"|", "a", "|", "b", "|">>, <<"|", "-", "|", "-", "|">>,
              <<"|", "1", "|", "2", "|">> >>
TableCD == << <<"|", "c", "|", "d", "|">>, <<"|", "-", "|", "-", "|">>,
              <<"|", "3", "|", "4", "|">> >>
TableEF == << <<"|", "e", "|", "f", "|">>, <<"|", "-", "|", "-", "|">> >>

\* the documents exported: their tables have two columns and end at a blank
\* line, so the rendered HTML holds one <table> per entry of `tables`
ExportDocs == {
    JoinLines(<< <<"x">> >>),
    JoinLines(TableAB),
    JoinLines(TableAB \o << <<>> >> \o TableCD),
    JoinLines(TableAB \o << <<>>, <<"x">>, <<>> >> \o TableAB),
    JoinLines(TableAB \o << <<>> >> \o TableCD \o << <<>> >> \o TableEF) }

\* `\n\n![Chart](${imageData})\n\n`; the data URI is one character here
ImageMarkdown == <<"\n", "\n", "!", "[", "C", "h", "a", "r", "t", "]", "(",
                   "data:image/png;base64", ")", "\n", "\n">>

\* TableChartToggle's useState initial values, in the container the mount
\* effect creates for placeholder `index`
NewContainer(index) ==
    [tableIndex |-> index, showChart |-> FALSE, chartType |-> "ColumnChart"]

\* the table placeholder mount effect: one container per placeholder that
\* has a tables[index]
MountTables ==
    /\ ~mounted
    /\ ~editMode
    /\ mounted' = TRUE
    /\ containers' = [i \in 1..Len(ExtractTables(editableContent)) |->
                          NewContainer(i - 1)]
    /\ UNCHANGED <<exportPc, exportKind, exportI, exportBase, tempContent,
                   captures, exported, exportOutcome, exportAlerts,
                   extraExports>>
    /\ UNCHANGED notExportVars

\* onClick={() => setShowChart(!showChart)} of container i
ToggleShowChart(i) ==
    /\ i \in 1..Len(containers)
    /\ containers' = [containers EXCEPT ![i].showChart = ~@]
    /\ UNCHANGED <<mounted, exportPc, exportKind, exportI, exportBase,
                   tempContent, captures, exported, exportOutcome, exportAlerts,
                   extraExports>>
    /\ UNCHANGED notExportVars

\* the chart kind select, rendered only while showChart
HandleChartTypeChange(i, newType) ==
    /\ i \in 1..Len(containers)
    /\ containers[i].showChart
    /\ containers' = [containers EXCEPT ![i].chartType = newType]
    /\ UNCHANGED <<mounted, exportPc, exportKind, exportI, exportBase,
                   tempContent, captures, exported, exportOutcome, exportAlerts,
                   extraExports>>
    /\ UNCHANGED notExportVars

\* what TableChartToggle renders: the button, and the chart or the table;
\* no element of it is a caption
ToggleRender(c) ==
    [button |-> IF c.showChart THEN "Show Table" ELSE "Show Chart",
     body |-> IF c.showChart THEN c.chartType ELSE "table"]

\* container.getAttribute('data-has-chart') === 'true': the chart's ready
\* callback walks up from the chart and tags the first ancestor whose
\* className includes 'p-4', the toggle's own <div className="p-4">, so the
\* [data-table-index] container above it never carries the attribute
ContainerHasChartAttr(c) == FALSE

\* hasChart || (chartDiv && getComputedStyle(chartDiv).display !== 'none'):
\* the div.flex.justify-center.items-center is rendered only while showChart
ChartVisible(c) == ContainerHasChartAttr(c) \/ c.showChart

\* tableMatches = tempContent.match(tableRegex) || [];
\* if (tableMatches[parseInt(tableIndex)]) tempContent =
\*     tempContent.replace(targetTable, imageMarkdown)
SubstituteTable(temp, tableIndex) ==
    LET tableMatches == TableMatches(temp)
    IN  IF tableIndex < Len(tableMatches) /\ tableMatches[tableIndex + 1] # <<>>
        THEN ReplaceFirst(temp, tableMatches[tableIndex + 1], ImageMarkdown)
        ELSE temp

\* the first container at or after position i (0-based) whose chart is
\* visible, Len(cs) when there is none
RECURSIVE NextChartFrom(_, _)
NextChartFrom(cs, i) ==
    IF i >= Len(cs) \/ ChartVisible(cs[i + 1]) THEN i ELSE NextChartFrom(cs, i + 1)

\* the handler's loop from container i up to its next await: containers
\* without a visible chart are passed over ('Chart not visible or not
\* found'); at a visible chart the loop awaits html2canvas; past the last
\* container the handler calls the exporter with contentToExport
RunLoopFrom(i, temp, caps) ==
    LET j == NextChartFrom(containers, i)
    IN  /\ exportI' = j
        /\ tempContent' = temp
        /\ captures' = [k \in 1..Len(containers) |->
                            IF k - 1 >= i /\ k - 1 < j THEN "table" ELSE caps[k]]
        /\ exportPc' = IF j < Len(containers) THEN "capture" ELSE "pack"
        /\ exported' = IF j < Len(containers) THEN <<>> ELSE temp

\* handleExportDocx / handleExportPdf, from the click to the first await
HandleExport(kind) ==
    /\ exportPc = "idle"
    /\ exportKind' = kind
    /\ exportBase' = editableContent
    /\ exportOutcome' = "none"
    /\ exportAlerts' = 0
    /\ RunLoopFrom(0, editableContent, [k \in 1..Len(containers) |-> "pending"])
    /\ UNCHANGED <<mounted, containers, extraExports>>
    /\ UNCHANGED notExportVars

\* the handler resumed after html2canvas: with valid image data the table
\* is substituted in the scratch copy, then the loop goes on
CaptureResumed(captured) ==
    /\ exportPc = "capture"
    /\ RunLoopFrom(exportI + 1,
                   IF captured
                   THEN SubstituteTable(tempContent, containers[exportI + 1].tableIndex)
                   ELSE tempContent,
                   [captures EXCEPT ![exportI + 1] =
                        IF captured THEN "image" ELSE "null"])
    /\ UNCHANGED <<mounted, containers, exportKind, exportBase, exportOutcome,
                   exportAlerts, extraExports>>

CaptureDoneWritingDocument(captured) ==
    /\ CaptureResumed(captured)
    /\ editableContent' = tempContent'
    /\ UNCHANGED <<editMode, findText, replaceText, matches, matchCount,
                   currentMatch, timers, listenerText, replaces>>
    /\ UNCHANGED <<fnVars, exVars, toggleVars, renderVars, genVars, laterVars>>

CaptureDone(captured) ==
    /\ CaptureResumed(captured)
    /\ UNCHANGED notExportVars

\* the `.catch` on Packer.toBlob(doc).then(...): console.error and one alert
PackingCatchSilent(alerts) == alerts

PackingCatch(alerts) == alerts + 1

\* the awaited part of exportToDocx / exportToPdf settles.  markdownToPdf
\* ends with doc.save; markdownToDocx only builds the document, and
\* exportToDocx then calls Packer.toBlob without awaiting it, so the handler
\* is done while the packing is still pending.  An exception (of the
\* conversion, of doc.save, or thrown by the call of Packer.toBlob) reaches
\* the exporter's own catch: console.error and one alert.  The handler's
\* catch is never reached from here.
ExporterSettles(ok) ==
    /\ exportPc = "pack"
    /\ exportPc' = IF ok /\ exportKind = "docx" THEN "blob" ELSE "idle"
    /\ exportOutcome' = IF ~ok THEN "failed"
                        ELSE IF exportKind = "pdf" THEN "saved" ELSE "none"
    /\ exportAlerts' = IF ok THEN exportAlerts ELSE exportAlerts + 1
    /\ UNCHANGED <<mounted, containers, exportKind, exportI, exportBase,
                   tempContent, captures, exported, extraExports>>
    /\ UNCHANGED notExportVars

\* the promise of Packer.toBlob settles: with a blob, handed to saveAs, or
\* with a rejection; an exception of saveAs is a rejection of the chain too
PackSettles(outcome) ==
    /\ exportPc = "blob"
    /\ exportPc' = "idle"
    /\ exportOutcome' = IF outcome = "blob" THEN "saved" ELSE "failed"
    /\ exportAlerts' = IF outcome = "blob" THEN exportAlerts
                       ELSE PackingCatch(exportAlerts)
    /\ UNCHANGED <<mounted, containers, exportKind, exportI, exportBase,
                   tempContent, captures, exported, extraExports>>
    /\ UNCHANGED notExportVars

\* a click on an export button while an export is outstanding: the buttons
\* carry no disabled attribute and the handlers test no flag, so one more
\* handler starts.  It reads the DOM and editableContent and writes only
\* its own locals, so this model keeps no more of it than that it runs.
HandleExportAgain(kind) ==
    /\ exportPc # "idle"
    /\ extraExports < MaxExtraExports
    /\ extraExports' = extraExports + 1
    /\ UNCHANGED <<mounted, containers, exportPc, exportKind, exportI,
                   exportBase, tempContent, captures, exported, exportOutcome,
                   exportAlerts>>
    /\ UNCHANGED notExportVars

\* one of those exports has settled
ExtraExportSettles ==
    /\ extraExports > 0
    /\ extraExports' = extraExports - 1
    /\ UNCHANGED <<mounted, containers, exportPc, exportKind, exportI,
                   exportBase, tempContent, captures, exported, exportOutcome,
                   exportAlerts>>
    /\ UNCHANGED notExportVars

ExportInit ==
    /\ \E content \in ExportDocs : FindInitial(content)
    /\ ExportIdle
    /\ FnIdle
    /\ ExIdle
    /\ ToggleIdle
    /\ RenderIdle
    /\ GenIdle
    /\ LaterIdle

ExportNext ==
    \/ MountTables
    \/ \E i \in 1..MaxTables : ToggleShowChart(i)
    \/ \E i \in 1..MaxTables : \E newType \in ChartTypes :
           HandleChartTypeChange(i, newType)
    \/ \E kind \in {"docx", "pdf"} : HandleExport(kind)
    \/ \E captured \in BOOLEAN : CaptureDone(captured)
    \/ \E ok \in BOOLEAN : ExporterSettles(ok)
    \/ \E outcome \in {"blob", "rejected", "saveAsThrows"} : PackSettles(outcome)
    \/ \E kind \in {"docx", "pdf"} : HandleExportAgain(kind)
    \/ ExtraExportSettles

SpecExport == ExportInit /\ [][ExportNext]_vars

---------------------------------------------------------------------------
(* C1 *)

\* the text the claim describes: `text` from offset `from` on, its table
\* blocks counted from k, each one whose capture gave an image replaced by
\* the image reference and every other one left as it is
RECURSIVE ClaimedExportFrom(_, _, _, _)
ClaimedExportFrom(text, from, k, caps) ==
    LET starts == {p \in from..(Len(text) - 1) : TableMatchEnd(text, p) # -1}
    IN  IF starts = {} THEN SubstringFrom(text, from)
        ELSE LET p == Min(starts)
                 e == TableMatchEnd(text, p)
             IN  Substring(text, from, p)
                 \o (IF k < Len(caps) /\ caps[k + 1] = "image"
                     THEN ImageMarkdown ELSE Substring(text, p, e))
                 \o ClaimedExportFrom(text, e, k + 1, caps)

\* C1: when every table of the document is mounted, the text handed to the
\* exporter holds, in the original order, an image reference in place of
\* each table whose toggle showed a chart and whose capture returned an
\* image, and every other table block unchanged, however many tables show
\* a chart.
C1_ExportSubstitutionAsStated ==
    (exportPc \in {"pack", "blob", "idle"} /\ exportKind # "none"
        /\ Len(captures) = Len(TableMatches(exportBase))) =>
        exported = ClaimedExportFrom(exportBase, 0, 0, captures)

---------------------------------------------------------------------------
(* C2 *)

\* C2: from the click on an export button on, whatever the toggles, the
\* captures and the exporter's outcome, editableContent is the text it was
\* at the click; only the scratch copy is changed.
C2_ExportLeavesDocument ==
    (exportKind # "none") => editableContent = exportBase

\* an export whose scratch copy had a table substituted and whose exporter
\* failed
C2_Witness ==
    /\ exportPc = "idle"
    /\ exportOutcome = "failed"
    /\ exported # exportBase
    /\ editableContent = exportBase

---------------------------------------------------------------------------
(* C3 *)

\* the caption label the toggle shows, "none" when it renders no caption
CaptionLabel(c) ==
    IF "caption" \in DOMAIN ToggleRender(c) THEN ToggleRender(c).caption ELSE "none"

\* C3: every table keeps the figure number of its position in the document
\* through any toggles, and its caption label reads "Table" while the table
\* is shown and "Chart" while a chart is shown.
C3_FigureNumberingAsStated ==
    \A i \in 1..Len(containers) :
        /\ containers[i].tableIndex = i - 1
        /\ CaptionLabel(containers[i]) =
               IF containers[i].showChart THEN "Chart" ELSE "Table"

---------------------------------------------------------------------------
(* One TableChartToggle: its column selections and getChartData.  A chart  *)
(* data cell is a record like the cells of the extractor: a "string" with  *)
(* its characters or a "number" with its value.                            *)

AllChartTypes == {"ColumnChart", "BarChart", "LineChart", "AreaChart",
                  "PieChart", "DonutChart", "ScatterChart", "ComboChart"}

Str(text) == [t |-> "string", v |-> text]
Num(n) == [t |-> "number", v |-> n]
Undefined == [t |-> "undefined", v |-> 0]

\* a key the engine treats as an array index: a canonical decimal numeral
IsArrayIndex(key) == IsDigits(key) /\ (Len(key) = 1 \/ key[1] # "0")

\* a sequence without the repeats of its elements, first places kept
RECURSIVE Dedup(_)
Dedup(seq) ==
    IF seq = <<>> THEN <<>>
    ELSE LET init == Dedup(SubSeq(seq, 1, Len(seq) - 1))
             last == seq[Len(seq)]
         IN  IF \E i \in 1..Len(init) : init[i] = last THEN init
             ELSE Append(init, last)

\* Object.keys of a row built by assigning rowData[header] in header order:
\* array-index keys first, ascending, then the other keys as first assigned
ObjectKeys(headers) ==
    LET keys == Dedup(headers)
    IN  SortSeq(SelectSeq(keys, IsArrayIndex),
                LAMBDA a, b : DigitsValue(a) < DigitsValue(b))
        \o SelectSeq(keys, LAMBDA k : ~IsArrayIndex(k))

\* the decimal digits of a natural number
RECURSIVE NatToString(_)
NatToString(n) ==
    LET d == <<"0", "1", "2", "3", "4", "5", "6", "7", "8", "9">>[(n % 10) + 1]
    IN  IF n < 10 THEN <<d>> ELSE Append(NatToString(n \div 10), d)

\* String(n) of an integer
NumberToString(n) == IF n < 0 THEN <<"-">> \o NatToString(0 - n) ELSE NatToString(n)

\* row[col], undefined when the row has no such key
Cell(row, col) == IF col \in DOMAIN row THEN row[col] ELSE Undefined

\* String(row[selectedLabelColumn] || ''): 0, '' and undefined are falsy
LabelString(cell) ==
    IF cell.t = "undefined" THEN Str(<<>>)
    ELSE IF cell.t = "number" THEN
        IF cell.v = 0 THEN Str(<<>>) ELSE Str(NumberToString(cell.v))
    ELSE Str(cell.v)

\* formatValue: null/undefined -> 0; Number(value), NaN -> 0
FormatValue(cell) ==
    IF cell.t = "undefined" THEN Num(0)
    ELSE IF cell.t = "number" THEN Num(cell.v)
    ELSE IF IsNumeral(Trim(cell.v)) THEN Num(NumberOf(Trim(cell.v)))
    ELSE IF Trim(cell.v) = <<>> THEN Num(0)
    ELSE Num(0)

NoData == << <<Str(<<"L", "a", "b", "e", "l">>), Str(<<"V", "a", "l", "u", "e">>)>>,
             <<Str(<<"N", "o", " ", "D", "a", "t", "a">>), Num(0)>> >>

ScatterPlaceholder == << <<Str(<<"X">>), Str(<<"Y">>)>>, <<Num(0), Num(0)>> >>

PieValueColumnLast(values) == values[Len(values)]

\* const valueColumn = selectedValueColumns[0]
PieValueColumn(values) == values[1]

\* getChartData
GetChartData(data, kind, label, values) ==
    IF label = <<>> \/ Len(values) = 0 THEN NoData
    ELSE IF kind \in {"PieChart", "DonutChart"} THEN
        << NoData[1] >>
        \o [r \in 1..Len(data) |->
                <<LabelString(Cell(data[r], label)),
                  FormatValue(Cell(data[r], PieValueColumn(values)))>>]
    ELSE IF kind = "ScatterChart" THEN
        IF Len(values) < 2 THEN ScatterPlaceholder
        ELSE << <<Str(values[1]), Str(values[2])>> >>
             \o [r \in 1..Len(data) |->
                     <<FormatValue(Cell(data[r], values[1])),
                       FormatValue(Cell(data[r], values[2]))>>]
    ELSE << <<Str(label)>> \o [i \in 1..Len(values) |-> Str(values[i])] >>
         \o [r \in 1..Len(data) |->
                 <<LabelString(Cell(data[r], label))>>
                 \o [i \in 1..Len(values) |-> FormatValue(Cell(data[r], values[i]))]]

\* the markdown tables a toggle is mounted for
ToggleMarkdowns == {
    JoinLines(<< <<"|", "L", "|", "A", "|", "B", "|">>,
                 <<"|", "-", "|", "-", "|", "-", "|">>,
                 <<"|", "x", "|", "1", "0", "|", "2", "|">>,
                 <<"|", "0", "|", "y", "|", "3", "|">> >>),
    JoinLines(<< <<"|", "L", "|", "A", "|">>,
                 <<"|", "-", "|", "-", "|">>,
                 <<"|", "x", "|", "5", "|">> >>),
    JoinLines(<< <<"|", "L", "|", "1", "|">>,
                 <<"|", "-", "|", "-", "|">>,
                 <<"|", "x", "|", "5", "|">> >>),
    JoinLines(<< <<"|", "L", "|">>,
                 <<"|", "-", "|">>,
                 <<"|", "x", "|">> >>),
    JoinLines(<< <<"|", "L", "|", "A", "|">>,
                 <<"|", "-", "|", "-", "|">> >>) }

\* what the render after a handler hands to <Chart data={getChartData()}>
Rendered(show, kind, label, values) ==
    IF show THEN GetChartData(tableData, kind, label, values) ELSE <<>>

\* the column init effect on [tableData], run after the first render
ColumnInitEffect ==
    /\ tgPc = "mounted"
    /\ tgPc' = "ready"
    /\ IF Len(tableData) > 0
       THEN /\ selectedLabelColumn' =
                   IF selectedLabelColumn # <<>> THEN selectedLabelColumn
                   ELSE tableKeys[1]
            /\ selectedValueColumns' =
                   IF Len(selectedValueColumns) = 0 /\ Len(tableKeys) > 1
                   THEN <<tableKeys[2]>> ELSE selectedValueColumns
       ELSE UNCHANGED <<selectedLabelColumn, selectedValueColumns>>
    /\ chartData' = Rendered(showChart, chartType, selectedLabelColumn',
                             selectedValueColumns')
    /\ UNCHANGED <<tableData, tableKeys, showChart, chartType>>
    /\ UNCHANGED notToggleVars

\* onClick={() => setShowChart(!showChart)}
SetShowChart ==
    /\ tgPc = "ready"
    /\ showChart' = ~showChart
    /\ chartData' = Rendered(showChart', chartType, selectedLabelColumn,
                             selectedValueColumns)
    /\ UNCHANGED <<tgPc, tableData, tableKeys, chartType, selectedLabelColumn,
                   selectedValueColumns>>
    /\ UNCHANGED notToggleVars

\* handleChartTypeChange, from the select shown in chart view
SetChartType(newType) ==
    /\ tgPc = "ready"
    /\ showChart
    /\ chartType' = newType
    /\ chartData' = Rendered(showChart, newType, selectedLabelColumn,
                             selectedValueColumns)
    /\ UNCHANGED <<tgPc, tableData, tableKeys, showChart, selectedLabelColumn,
                   selectedValueColumns>>
    /\ UNCHANGED notToggleVars

\* the label column select: onChange={(e) => setSelectedLabelColumn(e.target.value)}
SetSelectedLabelColumn(col) ==
    /\ tgPc = "ready"
    /\ showChart
    /\ \E i \in 1..Len(tableKeys) : tableKeys[i] = col
    /\ col # selectedLabelColumn
    /\ selectedLabelColumn' = col
    /\ chartData' = Rendered(showChart, chartType, col, selectedValueColumns)
    /\ UNCHANGED <<tgPc, tableData, tableKeys, showChart, chartType,
                   selectedValueColumns>>
    /\ UNCHANGED notToggleVars

Includes(seq, x) == \E i \in 1..Len(seq) : seq[i] = x

\* handleValueColumnChange, from a checkbox of a column other than the
\* label column: checking appends, unchecking filters the column out
HandleValueColumnChange(column, checked) ==
    /\ tgPc = "ready"
    /\ showChart
    /\ Includes(tableKeys, column)
    /\ column # selectedLabelColumn
    /\ checked = ~Includes(selectedValueColumns, column)
    /\ selectedValueColumns' =
           IF checked THEN Append(selectedValueColumns, column)
           ELSE SelectSeq(selectedValueColumns, LAMBDA col : col # column)
    /\ chartData' = Rendered(showChart, chartType, selectedLabelColumn,
                             selectedValueColumns')
    /\ UNCHANGED <<tgPc, tableData, tableKeys, showChart, chartType,
                   selectedLabelColumn>>
    /\ UNCHANGED notToggleVars

ColumnNames == {<<"L">>, <<"A">>, <<"B">>, <<"1">>}

ToggleInit ==
    /\ \E markdown \in ToggleMarkdowns :
           LET table == ExtractTables(markdown)[1]
           IN  /\ tableData = table.data
               /\ tableKeys = IF Len(table.data) > 0 THEN ObjectKeys(table.headers)
                              ELSE <<>>
    /\ tgPc = "mounted"
    /\ ToggleInitial
    /\ FnIdle
    /\ FindIdle
    /\ ExIdle
    /\ ExportIdle
    /\ RenderIdle
    /\ GenIdle
    /\ LaterIdle

ToggleNext ==
    \/ ColumnInitEffect
    \/ SetShowChart
    \/ \E newType \in AllChartTypes : SetChartType(newType)
    \/ \E col \in ColumnNames : SetSelectedLabelColumn(col)
    \/ \E column \in ColumnNames : \E checked \in BOOLEAN :
           HandleValueColumnChange(column, checked)

SpecToggle == ToggleInit /\ [][ToggleNext]_vars

---------------------------------------------------------------------------
(* C11 *)

\* C11: in every reachable state of a toggle the selected label column is
\* not among the selected value columns.
C11_LabelNotAValueColumn ==
    ~Includes(selectedValueColumns, selectedLabelColumn)

---------------------------------------------------------------------------
(* C12 *)

\* the numbers of one value column, row by row
ColumnNumbers(column) ==
    [r \in 1..Len(tableData) |-> FormatValue(Cell(tableData[r], column))]

\* column c of the chart data below its header row
DataColumn(c) == [r \in 1..Len(tableData) |-> chartData[r + 1][c]]

\* C12: the chart data uses only the first selected value column for
\* PieChart and DonutChart, under the header ["Label", "Value"]; only the
\* first two for ScatterChart, and the single point (0, 0) with fewer than
\* two; all of them for every other kind; without a label column or a
\* value column it is the 'No Data' series.
C12_ChartDataArity ==
    showChart =>
        IF selectedLabelColumn = <<>> \/ selectedValueColumns = <<>>
        THEN chartData = NoData
        ELSE /\ chartType \in {"PieChart", "DonutChart"} =>
                    /\ Len(chartData) = Len(tableData) + 1
                    /\ chartData[1] = NoData[1]
                    /\ \A r \in 2..Len(chartData) : Len(chartData[r]) = 2
                    /\ DataColumn(2) = ColumnNumbers(selectedValueColumns[1])
             /\ (chartType = "ScatterChart" /\ Len(selectedValueColumns) < 2) =>
                    chartData = ScatterPlaceholder
             /\ (chartType = "ScatterChart" /\ Len(selectedValueColumns) >= 2) =>
                    /\ Len(chartData) = Len(tableData) + 1
                    /\ chartData[1] = <<Str(selectedValueColumns[1]),
                                        Str(selectedValueColumns[2])>>
                    /\ \A r \in 2..Len(chartData) : Len(chartData[r]) = 2
                    /\ DataColumn(1) = ColumnNumbers(selectedValueColumns[1])
                    /\ DataColumn(2) = ColumnNumbers(selectedValueColumns[2])
             /\ chartType \notin {"PieChart", "DonutChart", "ScatterChart"} =>
                    /\ Len(chartData) = Len(tableData) + 1
                    /\ \A r \in 1..Len(chartData) :
                           Len(chartData[r]) = Len(selectedValueColumns) + 1
                    /\ \A i \in 1..Len(selectedValueColumns) :
                           /\ chartData[1][i + 1] = Str(selectedValueColumns[i])
                           /\ DataColumn(i + 1) = ColumnNumbers(selectedValueColumns[i])

\* a pie chart drawn of a table with rows while two value columns with
\* different numbers are selected
C12_Witness ==
    /\ showChart
    /\ chartType = "PieChart"
    /\ Len(selectedValueColumns) >= 2
    /\ Len(tableData) >= 1
    /\ ColumnNumbers(selectedValueColumns[1]) # ColumnNumbers(selectedValueColumns[2])
    /\ DataColumn(2) = ColumnNumbers(selectedValueColumns[1])

---------------------------------------------------------------------------
(* C13 *)

\* the string form of a table cell: a number's decimal spelling, a string
\* as it is
StringForm(cell) ==
    IF cell.t = "number" THEN Str(NumberToString(cell.v))
    ELSE IF cell.t = "string" THEN Str(cell.v)
    ELSE Str(<<>>)

\* C13: for the column, bar, line, area and combo kinds the chart data is
\* the header row [label column, value columns...] and one row per table
\* row, each as long as the header, its first element the string form of
\* the row's label cell, numeric ones included, and the others numbers.
C13_ChartDataShapeAsStated ==
    (/\ showChart
     /\ chartType \in {"ColumnChart", "BarChart", "LineChart", "AreaChart", "ComboChart"}
     /\ selectedLabelColumn # <<>>
     /\ selectedValueColumns # <<>>) =>
        /\ Len(chartData) = Len(tableData) + 1
        /\ chartData[1] = <<Str(selectedLabelColumn)>>
                          \o [i \in 1..Len(selectedValueColumns) |->
                                  Str(selectedValueColumns[i])]
        /\ \A r \in 1..Len(tableData) :
               /\ Len(chartData[r + 1]) = Len(chartData[1])
               /\ chartData[r + 1][1] =
                      StringForm(Cell(tableData[r], selectedLabelColumn))
               /\ \A i \in 2..Len(chartData[r + 1]) :
                      chartData[r + 1][i].t = "number"

---------------------------------------------------------------------------
(* The render pipeline: the two render effects, renderMarkdown with its    *)
(* await of the markdown processor, and the placeholder mount effect.      *)

\* the table blocks the GFM processor turns into <table> elements, in
\* document order: a header row and a delimiter row of as many cells, with
\* the rows below them
HtmlTableBlocks(markdown) ==
    LET lines == Split(markdown, NL)
        runs == SelectSeq(PipeRuns(lines, 1), LAMBDA r : r.table)
    IN  [k \in 1..Len(runs) |-> JoinLines(SubSeq(lines, runs[k].first, runs[k].last))]

\* the documents rendered
RenderDocs == {
    JoinLines(<< <<"x">> >>),
    JoinLines(TableAB),
    JoinLines(TableCD),
    \* a header of two cells over a delimiter row of three, then a table
    JoinLines(<< <<"|", "a", "|", "b", "|">>, <<"|", "-", "|", "-", "|", "-", "|">>,
                 <<>> >> \o TableCD),
    \* a one-column table without rows, then a table
    JoinLines(<< <<"|", "1", "|">>, <<"|", "-", "|">>, <<>>,
                 <<"|", "a", "|", "b", "|">>, <<"|", "-", "|", "-", "|">> >>) }

\* extractTables and the processor's table blocks, per document rendered
ExtractedOf == [text \in RenderDocs |-> ExtractTables(text)]

HtmlBlocksOf == [text \in RenderDocs |-> HtmlTableBlocks(text)]

\* one call of renderMarkdown at its await: its argument and the
\* extractedTables it computed before awaiting
RenderOf(text) == [text |-> text, extracted |-> ExtractedOf[text]]

\* html.replace(/<table>...<\/table>/g, ...) reads extractedTables[tableIndex]
\* .options: a TypeError when the HTML holds more tables than were extracted
RenderAborts(r) ==
    Len(r.extracted) > 0 /\ Len(HtmlBlocksOf[r.text]) > Len(r.extracted)

\* the HTML a call publishes: every <table> replaced by a placeholder when
\* tables were extracted, left as it is when none was
HtmlOf(r) ==
    Html(r.text, IF Len(r.extracted) > 0 THEN HtmlBlocksOf[r.text] ELSE <<>>)

\* the mount effect on a fresh preview DOM: placeholder `index` gets a
\* toggle of tables[index] when there is one, and stays a placeholder
\* otherwise
MountPlaceholders(html, tbls) ==
    [k \in 1..Len(html.placeholders) |->
        [block |-> html.placeholders[k],
         entry |-> IF k <= Len(tbls) THEN <<tbls[k]>> ELSE <<>>]]

\* the mount effect run again on a DOM it has already worked on: only the
\* placeholders still in the DOM are found
FillHoles(pv, tbls) ==
    [k \in 1..Len(pv) |->
        IF pv[k].entry = <<>> /\ k <= Len(tbls)
        THEN [pv[k] EXCEPT !.entry = <<tbls[k]>>] ELSE pv[k]]

\* the effects of the first render: the effect on [content] and the effect
\* on [editableContent, editMode] both call renderMarkdown(content)
FirstEffects ==
    /\ rdPc = "constructed"
    /\ rdPc' = "live"
    /\ tables' = ExtractedOf[contentProp]
    /\ renders' = {RenderOf(contentProp)}
    /\ UNCHANGED <<contentProp, renderedHtml, preview>>
    /\ UNCHANGED findVars
    /\ UNCHANGED notRenderVars

\* the content prop changes (a generation result arrives): the effect on
\* [content] sets editableContent and renders; in preview the effect on
\* [editableContent, editMode] renders the same text again
ContentChanges(c) ==
    /\ rdPc = "live"
    /\ c # contentProp
    /\ contentProp' = c
    /\ editableContent' = c
    /\ tables' = ExtractedOf[c]
    /\ renders' = renders \cup {RenderOf(c)}
    /\ preview' = IF editMode THEN preview ELSE FillHoles(preview, tables')
    /\ UNCHANGED <<rdPc, renderedHtml>>
    /\ UNCHANGED <<editMode, findText, replaceText, matches, matchCount,
                   currentMatch, timers, listenerText, replaces>>
    /\ UNCHANGED notRenderVars

\* the Edit / Preview buttons, with no find text entered: entering preview
\* runs the render effect, then the mount effect on the preview's new DOM
\* with the tables of this render, then again with the tables just set
RenderSetEditMode(b) ==
    /\ rdPc = "live"
    /\ findText = <<>>
    /\ b # editMode
    /\ editMode' = b
    /\ IF b
       THEN /\ preview' = <<>>
            /\ UNCHANGED <<tables, renders>>
       ELSE /\ tables' = ExtractedOf[editableContent]
            /\ renders' = renders \cup {RenderOf(editableContent)}
            /\ preview' = FillHoles(MountPlaceholders(renderedHtml, tables), tables')
    /\ UNCHANGED <<rdPc, contentProp, renderedHtml>>
    /\ UNCHANGED <<editableContent, findText, replaceText, matches, matchCount,
                   currentMatch, timers, listenerText, replaces>>
    /\ UNCHANGED notRenderVars

\* the textarea's onChange with no find text entered: in edit mode the
\* render effect does nothing
EditText(text) ==
    /\ rdPc = "live"
    /\ findText = <<>>
    /\ editMode
    /\ text # editableContent
    /\ editableContent' = text
    /\ UNCHANGED renderVars
    /\ UNCHANGED <<editMode, findText, replaceText, matches, matchCount,
                   currentMatch, timers, listenerText, replaces>>
    /\ UNCHANGED notRenderVars

\* a renderMarkdown call resumed after its await: it publishes its HTML, or
\* the TypeError is caught and logged and nothing is published; new HTML in
\* preview resets the DOM and runs the mount effect
RenderCompletes(r) ==
    /\ r \in renders
    /\ renders' = renders \ {r}
    /\ IF RenderAborts(r)
       THEN UNCHANGED <<renderedHtml, preview>>
       ELSE /\ renderedHtml' = HtmlOf(r)
            /\ preview' = IF editMode \/ HtmlOf(r) = renderedHtml THEN preview
                          ELSE MountPlaceholders(HtmlOf(r), tables)
    /\ UNCHANGED <<rdPc, contentProp, tables>>
    /\ UNCHANGED findVars
    /\ UNCHANGED notRenderVars

RenderInit ==
    /\ \E c \in RenderDocs : contentProp = c /\ FindInitial(c)
    /\ rdPc = "constructed"
    /\ RenderInitial
    /\ FnIdle
    /\ ExIdle
    /\ ExportIdle
    /\ ToggleIdle
    /\ GenIdle
    /\ LaterIdle

RenderNext ==
    \/ FirstEffects
    \/ \E c \in RenderDocs : ContentChanges(c)
    \/ \E b \in BOOLEAN : RenderSetEditMode(b)
    \/ \E text \in RenderDocs : EditText(text)
    \/ \E text \in RenderDocs : RenderCompletes(RenderOf(text))

SpecRender == RenderInit /\ [][RenderNext]_vars

---------------------------------------------------------------------------
(* C14 *)

\* the preview is settled on the Document: nothing is being rendered, and
\* the HTML and the tables are those of the current text
PreviewSettled ==
    /\ rdPc = "live"
    /\ ~editMode
    /\ renders = {}
    /\ renderedHtml.source = editableContent
    /\ tables = ExtractedOf[editableContent]

\* C14: the k-th placeholder stands for the table block that entry k of
\* extractTables was made of, and the toggle mounted on it has that entry's
\* rows and options, also where the processor's table detection and the
\* extractor's scan differ.
C14_PlaceholderAlignmentAsStated ==
    PreviewSettled =>
        \A k \in 1..Len(preview) :
            preview[k].entry = <<TableEntry(preview[k].block)>>

---------------------------------------------------------------------------
(* C15 *)

\* C15: in preview, once every pending render has completed, in whatever
\* order, the rendered HTML and the table list are both those of the latest
\* Document text.  Stated for the texts whose render publishes its HTML.
C15_LastWriteWinsAsStated ==
    (/\ rdPc = "live"
     /\ ~editMode
     /\ renders = {}
     /\ ~RenderAborts(RenderOf(editableContent))) =>
        /\ renderedHtml.source = editableContent
        /\ tables = ExtractedOf[editableContent]

---------------------------------------------------------------------------
(* C20 *)

\* C20: every renderMarkdown call that completes publishes the HTML of its
\* text, also when that HTML holds more tables than were extracted.
C20_RenderNeverAbortsAsStated ==
    [][\A text \in RenderDocs :
           RenderCompletes(RenderOf(text)) => renderedHtml'.source = text]_vars

---------------------------------------------------------------------------
(* The generation request: handleGenerate of the analysis page (a streamed
   answer) and of the home page (one answer).  The Document is
   generatedContent, which the page hands to the editor as its content. *)

MaxChunks == 3         \* most content events of one streamed answer

GenPages == {"analysis", "home"}

GenTexts == Strings({"a", "b"}, MaxChunks)

AlertNoExports == "You have no exports remaining. Please upgrade your plan."
AlertTooLong == "The request took too long. Please try again."
AlertFailed == "Failed to generate analysis. Please try again."

\* the outer catch of the analysis page's handler without its finally
GenCatchNoFinally(errorName) ==
    /\ genAlert' = IF errorName = "AbortError" THEN AlertTooLong ELSE AlertFailed
    /\ genPc' = "idle"
    /\ UNCHANGED isGenerating

\* the outer catch and finally of the analysis page's handler
GenCatch(errorName) ==
    /\ genAlert' = IF errorName = "AbortError" THEN AlertTooLong ELSE AlertFailed
    /\ isGenerating' = FALSE
    /\ genPc' = "idle"

\* the Generate button: both handlers set isGenerating and start waiting
HandleGenerate ==
    /\ genPc = "idle"
    /\ isGenerating' = TRUE
    /\ genAlert' = ""
    /\ streamContent' = <<>>
    /\ genPc' = IF genPage = "analysis" THEN "tracking" ELSE "posting"
    /\ UNCHANGED <<genPage, generatedContent>>
    /\ UNCHANGED notGenVars

\* analysis page: trackDocumentExport settles
TrackSettles(outcome) ==
    /\ genPc = "tracking"
    /\ CASE outcome = "canExport" ->
                /\ genPc' = "fetching"
                /\ UNCHANGED <<isGenerating, genAlert>>
         [] outcome = "noExports" ->
                /\ genAlert' = AlertNoExports
                /\ isGenerating' = FALSE
                /\ genPc' = "idle"
         [] OTHER -> GenCatch("Error")    \* a rejection, or 'Active file not found'
    /\ UNCHANGED <<genPage, generatedContent, streamContent>>
    /\ UNCHANGED notGenVars

\* analysis page: fetch('/api/generate') settles
FetchSettles(outcome) ==
    /\ genPc = "fetching"
    /\ CASE outcome = "ok" ->
                /\ genPc' = "reading"
                /\ UNCHANGED <<isGenerating, genAlert>>
         [] outcome = "aborted" -> GenCatch("AbortError")
         [] OTHER -> GenCatch("Error")
    /\ UNCHANGED <<genPage, generatedContent, streamContent>>
    /\ UNCHANGED notGenVars

\* analysis page: reader.read() gives a chunk with one data line.  A content
\* event is appended and shown at once; an error event is thrown and caught
\* inside the loop, which goes on reading.
ReadChunk(event) ==
    /\ genPc = "reading"
    /\ IF event.content # <<>>
       THEN /\ Len(streamContent) < MaxChunks
            /\ streamContent' = streamContent \o event.content
            /\ generatedContent' = streamContent \o event.content
       ELSE UNCHANGED <<streamContent, generatedContent>>
    /\ UNCHANGED <<genPage, genPc, isGenerating, genAlert>>
    /\ UNCHANGED notGenVars

\* analysis page: reader.read() gives done
ReadDone ==
    /\ genPc = "reading"
    /\ isGenerating' = FALSE
    /\ genPc' = "idle"
    /\ UNCHANGED <<genPage, generatedContent, streamContent, genAlert>>
    /\ UNCHANGED notGenVars

\* analysis page: reader.read() rejects, by the 29 s abort or a network error
ReadRejects(errorName) ==
    /\ genPc = "reading"
    /\ GenCatch(errorName)
    /\ UNCHANGED <<genPage, generatedContent, streamContent>>
    /\ UNCHANGED notGenVars

\* home page: api.post resolves; response.data.content becomes the Document
PostResolves(content) ==
    /\ genPc = "posting"
    /\ generatedContent' = content
    /\ isGenerating' = FALSE
    /\ genPc' = "idle"
    /\ UNCHANGED <<genPage, streamContent, genAlert>>
    /\ UNCHANGED notGenVars

\* home page: api.post rejects; the catch only logs
PostRejects ==
    /\ genPc = "posting"
    /\ isGenerating' = FALSE
    /\ genPc' = "idle"
    /\ UNCHANGED <<genPage, generatedContent, streamContent, genAlert>>
    /\ UNCHANGED notGenVars

StreamEvents ==
    {[content |-> c, error |-> e] : c \in {<<>>, <<"a">>, <<"b">>}, e \in BOOLEAN}

GenInit ==
    /\ genPage \in GenPages
    /\ genPc = "idle"
    /\ generatedContent = <<>>
    /\ isGenerating = FALSE
    /\ streamContent = <<>>
    /\ genAlert = ""
    /\ FnIdle
    /\ FindIdle
    /\ ExIdle
    /\ ExportIdle
    /\ ToggleIdle
    /\ RenderIdle
    /\ LaterIdle

GenNext ==
    \/ HandleGenerate
    \/ \E outcome \in {"canExport", "noExports", "rejected", "fileMissing"} :
           TrackSettles(outcome)
    \/ \E outcome \in {"ok", "notOk", "noBody", "rejected", "aborted"} : FetchSettles(outcome)
    \/ \E event \in StreamEvents : ReadChunk(event)
    \/ ReadDone
    \/ \E errorName \in {"AbortError", "TypeError"} : ReadRejects(errorName)
    \/ \E content \in GenTexts : PostResolves(content)
    \/ PostRejects

SpecGenerate == GenInit /\ [][GenNext]_vars

---------------------------------------------------------------------------
(* C16 *)

\* C16: the Document changes only in the step that completes a generation
\* request, and then to a non-empty result; a request that fails, is aborted
\* or answers with nothing, at any point of its stream, leaves the Document
\* as it was before the request.
C16_DocumentReplacedOnlyWhenCompleteAsStated ==
    [][generatedContent' # generatedContent =>
           /\ genPc' = "idle"
           /\ generatedContent' # <<>>]_vars

---------------------------------------------------------------------------
(* C17 *)

\* the exports outstanding: the one this model follows step by step, and
\* those started by clicks made meanwhile
ExportsInFlight == (IF exportPc = "idle" THEN 0 ELSE 1) + extraExports

\* C17: at most one export is in flight at any time; a click on an export
\* button while an export is outstanding starts no second export.
C17_ExportsSerializedAsStated == ExportsInFlight <= 1

---------------------------------------------------------------------------
(* C18 *)

\* C18: an export whose exporter raised an exception, or whose packing
\* failed, has shown exactly one alert and saved no file; an export that
\* saved its file has shown none; no export shows two.
C18_ExportFailureSurfacedOnce ==
    /\ exportAlerts <= 1
    /\ exportOutcome = "failed" => exportAlerts = 1
    /\ exportOutcome = "saved" => exportAlerts = 0
    /\ exportOutcome # "none" => exportPc = "idle"

\* a DOCX export with a chart image in its text that failed after its
\* handler was done or in its conversion
C18_Witness ==
    /\ exportPc = "idle"
    /\ exportKind = "docx"
    /\ exportOutcome = "failed"
    /\ exportAlerts = 1
    /\ exported # exportBase

---------------------------------------------------------------------------
(* C19 *)

\* the offsets the extractor's table matches start at
RECURSIVE TableMatchStartsFrom(_, _)
TableMatchStartsFrom(text, from) ==
    LET starts == {p \in from..(Len(text) - 1) : TableMatchEnd(text, p) # -1}
    IN  IF starts = {} THEN <<>>
        ELSE <<Min(starts)>> \o TableMatchStartsFrom(text, TableMatchEnd(text, Min(starts)))

\* the chart options the claim gives the block that starts at offset p: the
\* object of a chart-options comment that ends right before the block, with
\* nothing but white space between them, when its JSON parses; none otherwise
ClaimedOptions(text, p) ==
    LET before == {q \in 0..(p - 1) :
                      /\ OptionsMatchAt(text, q) # NoOptionsMatch
                      /\ SkipSpaces(text, OptionsMatchAt(text, q).end) = p}
    IN  IF before = {} THEN <<>>
        ELSE LET parsed == JsonParse(OptionsMatchAt(text, Min(before)).group)
             IN  IF parsed.ok THEN parsed.object ELSE <<>>

\* C19: every table block is extracted, and its entry carries the object of
\* the chart-options comment that immediately precedes the block when that
\* comment's JSON is well-formed, and no options otherwise.
C19_ChartOptionsAsStated ==
    exPc = "done" =>
        LET starts == TableMatchStartsFrom(ExMarkdown, 0)
        IN  /\ Len(exTables) = Len(starts)
            /\ \A k \in 1..Len(starts) :
                   exTables[k].options = ClaimedOptions(ExMarkdown, starts[k])

---------------------------------------------------------------------------
(* The DOCX converter: markdownToDocx (src/unnamed/part_007), one pass     *)
(* over the lines of the text.  An element it emits is kept as its kind,   *)
(* its text and, for a table, its rows.                                    *)

MaxDocxLines == 4      \* most lines of a text given to markdownToDocx

StartsWith(text, prefix) == OccursAt(text, prefix, 0)

\* trimmedLine.match(/!\[(.*?)\]\((.*?)\)/): the leftmost "![", the first
\* "](" after it and the first ")" after that; alt and src, or found FALSE
ImageMatch(text) ==
    LET starts == {p \in 0..(Len(text) - 1) :
                      /\ OccursAt(text, <<"!", "[">>, p)
                      /\ IndexOf(text, <<"]", "(">>, p + 2) # -1
                      /\ IndexOf(text, <<")">>,
                                 IndexOf(text, <<"]", "(">>, p + 2) + 2) # -1}
    IN  IF starts = {} THEN [found |-> FALSE, alt |-> <<>>, src |-> <<>>]
        ELSE LET p == Min(starts)
                 q == IndexOf(text, <<"]", "(">>, p + 2)
                 r == IndexOf(text, <<")">>, q + 2)
             IN  [found |-> TRUE,
                  alt |-> Substring(text, p + 2, q),
                  src |-> Substring(text, q + 2, r)]

\* src.startsWith('data:image'); a data URI is one character in the texts
\* of this model
IsDataImage(src) ==
    src # <<>> /\ src[1] \in {"data:image/png;base64", "data:image/bad"}

\* getImageDimensions(src): img.onload resolves, img.onerror rejects; the
\* second URI of this model is the one the browser cannot decode
ImageLoads(src) == src = <<"data:image/png;base64">>

Element(kind, text, rows) == [kind |-> kind, text |-> text, rows |-> rows]

\* new Paragraph({}) and the spacing-only paragraphs
EmptyParagraph == Element("empty", <<>>, <<>>)

\* the catch of the image block: the italic `[Image: ${alt}]`
DocxImageCaught(alt, trimmedLine) ==
    Element("placeholder", <<"[", "I", "m", "a", "g", "e", ":", " ">> \o alt \o <<"]">>,
            <<>>)

\* /^\d+\.\s/.test(trimmedLine)
IsNumbered(text) ==
    \E n \in 1..Len(text) :
        /\ \A i \in 1..n : text[i] \in Digits
        /\ CharAt(text, n) = "."
        /\ IsSpace(CharAt(text, n + 1))

\* numberMatch[2] of /^(\d+)\.\s(.*)/
NumberedText(text) ==
    LET n == CHOOSE n \in 1..Len(text) :
                 /\ \A i \in 1..n : text[i] \in Digits
                 /\ CharAt(text, n) = "."
    IN  SubstringFrom(text, n + 2)

\* the image block of the loop body, after currentSection was flushed
DocxImage(st, m, trimmedLine) ==
    IF ~IsDataImage(m.src) THEN st
    ELSE IF ~ImageLoads(m.src)
    THEN [st EXCEPT !.paragraphs = @ \o <<DocxImageCaught(m.alt, trimmedLine)>>]
    ELSE [st EXCEPT !.paragraphs =
              @ \o <<EmptyParagraph, Element("image", m.src, <<>>),
                     IF m.alt # <<>> /\ m.alt # <<"C", "h", "a", "r", "t">>
                     THEN Element("caption", m.alt, <<>>)
                     ELSE EmptyParagraph>>]

\* one iteration of the loop over lines; st holds inTable, tableData,
\* paragraphs and currentSection
DocxLine(st, line) ==
    LET trimmedLine == Trim(line)
        m == ImageMatch(trimmedLine)
        flushed == [st EXCEPT !.paragraphs = @ \o st.currentSection,
                              !.currentSection = <<>>]
        push(e) == [st EXCEPT !.currentSection = Append(@, e)]
    IN  IF trimmedLine = <<>>
        THEN [flushed EXCEPT !.paragraphs = Append(@, EmptyParagraph)]
        ELSE IF m.found THEN DocxImage(flushed, m, trimmedLine)
        ELSE IF StartsWith(trimmedLine, <<"#", " ">>)
        THEN push(Element("heading1", SubstringFrom(trimmedLine, 2), <<>>))
        ELSE IF StartsWith(trimmedLine, <<"#", "#", " ">>)
        THEN push(Element("heading2", SubstringFrom(trimmedLine, 3), <<>>))
        ELSE IF StartsWith(trimmedLine, <<"#", "#", "#", " ">>)
        THEN push(Element("heading3", SubstringFrom(trimmedLine, 4), <<>>))
        ELSE IF StartsWith(trimmedLine, <<"|">>) /\ ~st.inTable
        THEN [st EXCEPT !.inTable = TRUE,
                        !.tableData = <<SplitCells(trimmedLine)>>]
        ELSE IF StartsWith(trimmedLine, <<"|">>)
        THEN IF StartsWith(trimmedLine, <<"|", "-", "-">>) THEN st
             ELSE [st EXCEPT !.tableData = Append(@, SplitCells(trimmedLine))]
        ELSE IF st.inTable
        THEN [st EXCEPT !.inTable = FALSE,
                        !.paragraphs =
                            IF Len(st.tableData) > 0
                            THEN @ \o <<Element("table", <<>>, st.tableData),
                                        EmptyParagraph>>
                            ELSE @]
        ELSE IF StartsWith(trimmedLine, <<"-", " ">>)
                  \/ StartsWith(trimmedLine, <<"*", " ">>)
        THEN push(Element("bullet", SubstringFrom(trimmedLine, 2), <<>>))
        ELSE IF IsNumbered(trimmedLine)
        THEN push(Element("numbered", NumberedText(trimmedLine), <<>>))
        ELSE IF StartsWith(trimmedLine, <<"<!--">>) THEN st
        ELSE push(Element("paragraph", trimmedLine, <<>>))

RECURSIVE DocxLoop(_, _, _)
DocxLoop(st, lines, i) ==
    IF i > Len(lines) THEN st ELSE DocxLoop(DocxLine(st, lines[i]), lines, i + 1)

\* markdownToDocx: the children of the section it adds are `paragraphs` as
\* the loop left it; currentSection and tableData are dropped with the call
MarkdownToDocx(lines) ==
    DocxLoop([inTable |-> FALSE, tableData |-> <<>>, paragraphs |-> <<>>,
              currentSection |-> <<>>], lines, 1).paragraphs

DocxLines == {
    <<"#", " ", "h">>,                                  \* a heading
    <<"|", "a", "|", "b", "|">>,                        \* a header row
    <<"|", "-", "-", "|", "-", "-", "|">>,              \* a separator |--|--|
    <<"|", ":", "-", "|", "-", "|">>,                   \* a separator |:-|-|
    <<"|", "1", "|", "2", "|">>,                        \* a body row
    <<>>,                                               \* a blank line
    <<"p">>,                                            \* a paragraph line
    <<"-", " ", "i">>,                                  \* a list item
    <<"!", "[", "c", "]", "(", "data:image/png;base64", ")">>,   \* an image
    <<"!", "[", "c", "]", "(", "data:image/bad", ")">> }         \* one that fails to load

CvInit ==
    /\ cvPc = "in"
    /\ cvLines \in UNION {[1..k -> DocxLines] : k \in 1..MaxDocxLines}
    /\ cvDocx = <<>>
    /\ EarlierIdle
    /\ PdfIdle /\ DimIdle /\ RegIdle /\ QuotaIdle

CvConvert ==
    /\ cvPc = "in"
    /\ cvDocx' = MarkdownToDocx(cvLines)
    /\ cvPc' = "done"
    /\ UNCHANGED cvLines
    /\ UNCHANGED notCvVars

CvNext == CvConvert

SpecDocx == CvInit /\ [][CvNext]_vars

---------------------------------------------------------------------------
(* C21 *)

\* the rows of the tables emitted, in order
EmittedTables == 
    LET ts == SelectSeq(cvDocx, LAMBDA e : e.kind = "table")
    IN  [k \in 1..Len(ts) |-> ts[k].rows]

\* the table of the block that is run r: its header row, then its body
\* rows, the separator row left out
ClaimedDocxTable(lines, r) ==
    <<SplitCells(lines[r.first])>>
        \o [i \in 1..(r.last - r.first - 1) |-> SplitCells(lines[r.first + 1 + i])]

\* C21: for a text whose runs of pipe lines are all table blocks,
\* markdownToDocx emits one table per block, in order, made of the block's
\* header row and body rows without its separator row, wherever the block
\* stands, at the end of the text included.
C21_DocxTablesAsStated ==
    (cvPc = "done" /\ WellFormed(cvLines)) =>
        LET runs == PipeRuns(cvLines, 1)
        IN  EmittedTables = [k \in 1..Len(runs) |-> ClaimedDocxTable(cvLines, runs[k])]

---------------------------------------------------------------------------
(* C25 *)

\* the element the claim has for the content line `line` that is neither
\* blank nor part of a table
ClaimedElement(line) ==
    LET t == Trim(line)
        m == ImageMatch(t)
    IN  IF m.found
        THEN (IF ImageLoads(m.src) THEN Element("image", m.src, <<>>)
              ELSE DocxImageCaught(m.alt, t))
        ELSE IF StartsWith(t, <<"#", " ">>)
        THEN Element("heading1", SubstringFrom(t, 2), <<>>)
        ELSE IF StartsWith(t, <<"-", " ">>)
        THEN Element("bullet", SubstringFrom(t, 2), <<>>)
        ELSE Element("paragraph", t, <<>>)

\* the content blocks of the text from line i on, in source order
RECURSIVE ClaimedDocxFrom(_, _)
ClaimedDocxFrom(lines, i) ==
    IF i > Len(lines) THEN <<>>
    ELSE IF Trim(lines[i]) = <<>> THEN ClaimedDocxFrom(lines, i + 1)
    ELSE IF IsPipeLine(lines[i])
    THEN LET last == PipeRunEnd(lines, i)
         IN  <<Element("table", <<>>,
                       ClaimedDocxTable(lines, [first |-> i, last |-> last]))>>
             \o ClaimedDocxFrom(lines, last + 1)
    ELSE <<ClaimedElement(lines[i])>> \o ClaimedDocxFrom(lines, i + 1)

\* the elements emitted that carry content: not the empty and spacing
\* paragraphs, not the caption under an image
EmittedContent == SelectSeq(cvDocx, LAMBDA e : e.kind \notin {"empty", "caption"})

\* C25: the content elements markdownToDocx emits are the content blocks of
\* the text, each once and in source order: headings, list items, paragraph
\* lines, images and tables, the line after a table and the content after
\* the last blank line included.
C25_DocxOrderAndContentAsStated ==
    (cvPc = "done" /\ WellFormed(cvLines)) =>
        EmittedContent = ClaimedDocxFrom(cvLines, 1)

---------------------------------------------------------------------------
(* The PDF converter: markdownToPdf (src/unnamed/part_007).  One step is   *)
(* one iteration of its loop over the lines; lengths are in hundredths of  *)
(* a point, so that the page height 841.89 pt is exact.                    *)

A4_HEIGHT_PT == 84189
MARGIN_PT == 5000

MaxPdfPages == 2       \* most pages written
MaxPdfRows == 2        \* most rows of a table
MaxTextLines == 3      \* most lines splitTextToSize wraps one line into

Pt(n) == n * 100

\* A4_HEIGHT_PT - MARGIN_PT, the y below which nothing should be drawn
PageBottom == A4_HEIGHT_PT - MARGIN_PT

\* the heights calculateChartDimensions returns for the images of this model
ImageHeights == {Pt(100), Pt(400)}

\* the advance after a heading of level 1, 2, 3
HeadingAdvance(level) == IF level = 1 THEN Pt(40) ELSE IF level = 2 THEN Pt(35) ELSE Pt(30)

\* a thing drawn: what it is, the page it is on, and the y range it takes
\* (for a doc.text call of one line, its baseline is `bottom`)
Drawn(what, page, top, bottom) ==
    [what |-> what, page |-> page, top |-> top, bottom |-> bottom]

\* if (yPos + height > A4_HEIGHT_PT - MARGIN_PT) { doc.addPage(); yPos = resetTo }
\* as the page and y after it
BreakBefore(y, height, resetTo) ==
    IF y + height > PageBottom THEN [page |-> pdfPage + 1, y |-> resetTo]
    ELSE [page |-> pdfPage, y |-> y]

\* a blank line; yPos grows without a check, and this model stops counting
\* blank lines once yPos is past the bottom margin
PdfBlank ==
    /\ pdfPage > 0
    /\ pdfY <= PageBottom
    /\ pdfY' = pdfY + Pt(20)
    /\ pdfDrawn' = <<>>
    /\ UNCHANGED <<pdfPage, pdfRows>>
    /\ UNCHANGED notPdfVars

\* a heading line of level 1, 2 or 3
PdfHeading(level) ==
    /\ pdfPage > 0
    /\ LET at == BreakBefore(pdfY, Pt(30), MARGIN_PT)
       IN  /\ at.page <= MaxPdfPages
           /\ pdfPage' = at.page
           /\ pdfDrawn' = <<Drawn("heading", at.page, at.y, at.y + Pt(16))>>
           /\ pdfY' = at.y + HeadingAdvance(level)
    /\ UNCHANGED pdfRows
    /\ UNCHANGED notPdfVars

\* an image line whose data URI loads: the image, and its caption when the
\* alt text is not "Chart"
PdfImage(height, captioned) ==
    /\ pdfPage > 0
    /\ LET at == BreakBefore(pdfY + Pt(30), height, MARGIN_PT + Pt(20))
       IN  /\ at.page <= MaxPdfPages
           /\ pdfPage' = at.page
           /\ pdfDrawn' =
                  <<Drawn("image", at.page, at.y, at.y + height)>>
                  \o (IF captioned
                      THEN <<Drawn("caption", at.page, at.y + height + Pt(5),
                                   at.y + height + Pt(15))>>
                      ELSE <<>>)
           /\ pdfY' = IF captioned THEN at.y + height + Pt(15) + Pt(25)
                      ELSE at.y + height + Pt(30)
    /\ UNCHANGED pdfRows
    /\ UNCHANGED notPdfVars

\* a line that starts with '|'
PdfTableRow ==
    /\ pdfPage > 0
    /\ pdfRows < MaxPdfRows
    /\ pdfRows' = IF pdfRows = -1 THEN 1 ELSE pdfRows + 1
    /\ pdfDrawn' = <<>>
    /\ UNCHANGED <<pdfY, pdfPage>>
    /\ UNCHANGED notPdfVars

\* a line that reaches the last if/else and does not start with '|': a text
\* line, or an image line whose image did not load (the catch only logs, and
\* the line goes on as any other).  In a table it ends the table, which is
\* drawn by autoTable `rowHeight` high per row, and it is not drawn itself;
\* else it is drawn as text, wrapped into `textLines` lines.
PdfPlain(what, textLines, rowHeight) ==
    /\ pdfPage > 0
    /\ IF pdfRows # -1
       THEN LET at == BreakBefore(pdfY, pdfRows * Pt(30), MARGIN_PT)
            IN  /\ at.page <= MaxPdfPages
                /\ pdfPage' = at.page
                /\ pdfDrawn' = <<Drawn("table", at.page, at.y,
                                       at.y + pdfRows * rowHeight)>>
                /\ pdfY' = at.y + pdfRows * rowHeight + Pt(20)
                /\ pdfRows' = -1
       ELSE LET textHeight == textLines * Pt(15)
                at == BreakBefore(pdfY, textHeight, MARGIN_PT)
            IN  /\ at.page <= MaxPdfPages
                /\ pdfPage' = at.page
                /\ pdfDrawn' = <<Drawn(what, at.page, at.y,
                                       at.y + Pt(12) + (textLines - 1) * Pt(15))>>
                /\ pdfY' = at.y + textHeight + Pt(12)
                /\ UNCHANGED pdfRows
    /\ UNCHANGED notPdfVars

\* markdownToPdf up to its loop: the title is drawn and yPos is 60 pt below
\* the top margin
PdfInit ==
    /\ pdfY = MARGIN_PT + Pt(60)
    /\ pdfPage = 1
    /\ pdfRows = -1
    /\ pdfDrawn = <<>>
    /\ EarlierIdle
    /\ CvIdle /\ DimIdle /\ RegIdle /\ QuotaIdle

PdfNext ==
    \/ PdfBlank
    \/ \E level \in 1..3 : PdfHeading(level)
    \/ \E height \in ImageHeights : \E captioned \in BOOLEAN : PdfImage(height, captioned)
    \/ PdfTableRow
    \/ \E what \in {"text", "imageMarkdown"} : \E textLines \in 1..MaxTextLines :
           \E rowHeight \in {Pt(20), Pt(30)} : PdfPlain(what, textLines, rowHeight)

SpecPdf == PdfInit /\ [][PdfNext]_vars

---------------------------------------------------------------------------
(* C23 *)

\* C23: no heading, image (with its caption) or text block is drawn
\* reaching below the bottom margin: each is drawn after a page-break check
\* that moves it to a new page when it would.
C23_NothingBelowBottomMarginAsStated ==
    \A k \in 1..Len(pdfDrawn) :
        pdfDrawn[k].what # "table" => pdfDrawn[k].bottom <= PageBottom

---------------------------------------------------------------------------
(* C22 *)

\* C22: an image that fails to decode or to be measured is drawn as the
\* placeholder "[Image: alt]"; its raw markdown is never drawn as text.
C22_ImageFailurePlaceholderAsStated ==
    \A k \in 1..Len(pdfDrawn) : pdfDrawn[k].what # "imageMarkdown"

---------------------------------------------------------------------------
(* Image scaling: calculateChartDimensions of lib/fileConversion *)

MaxDimension == 1001

maxWidth == 500
maxHeight == 400

\* Math.round(a * (b / c)) for positive integers: the nearest integer, a half
\* rounding up.  The quotient is exact here; the double arithmetic of the
\* code differs from it by less than one part in 10^15.
RoundMulDiv(a, b, c) == (2 * a * b + c) \div (2 * c)

CalculateChartDimensions(originalWidth, originalHeight) ==
    LET width == Min({originalWidth, maxWidth})
        height == RoundMulDiv(width, originalHeight, originalWidth)
    IN  IF height > maxHeight
        THEN [width |-> RoundMulDiv(maxHeight, originalWidth, originalHeight),
              height |-> maxHeight]
        ELSE [width |-> width, height |-> height]

\* natural sizes tried: the small ones, and those around each multiple of 50
Dimensions == {d \in 1..MaxDimension : d <= 10 \/ d % 50 \in {0, 1}}

DimInit ==
    /\ dimPc = "in"
    /\ dimIn \in {[width |-> w, height |-> h] : w \in Dimensions, h \in Dimensions}
    /\ dimOut = <<>>
    /\ EarlierIdle /\ CvIdle /\ PdfIdle /\ RegIdle /\ QuotaIdle

DimCalculate ==
    /\ dimPc = "in"
    /\ dimPc' = "done"
    /\ dimOut' = CalculateChartDimensions(dimIn.width, dimIn.height)
    /\ UNCHANGED dimIn
    /\ UNCHANGED notDimVars

DimNext == DimCalculate

SpecDims == DimInit /\ [][DimNext]_vars

Abs(n) == IF n < 0 THEN -n ELSE n

\* C24: for positive integer natural dimensions the result is at least 1 in
\* each direction, never larger than the original or the maximum box, and has
\* the original aspect ratio up to one pixel in one of the two directions.
C24_ScaledDimensionsAsStated ==
    dimPc = "done" =>
        /\ 1 <= dimOut.width /\ dimOut.width <= Min({dimIn.width, maxWidth})
        /\ 1 <= dimOut.height /\ dimOut.height <= Min({dimIn.height, maxHeight})
        /\ \/ Abs(dimOut.height * dimIn.width - dimOut.width * dimIn.height) <= dimIn.width
           \/ Abs(dimOut.height * dimIn.width - dimOut.width * dimIn.height) <= dimIn.height

---------------------------------------------------------------------------
(* C26 *)

Range(f) == {f[k] : k \in DOMAIN f}

\* C26: in edit mode with no deferred callback pending, the stored match
\* list is the list of occurrences of the needle in the text, the match count
\* is its length, and the current match is 0 or an index into the list.
C26_FindSessionConsistentAsStated ==
    editMode /\ timers = <<>> =>
        /\ matches = FindAllOccurrences(editableContent, findText)
        /\ matchCount = Len(matches)
        /\ (currentMatch = 0 \/ currentMatch < Len(matches))

\* C26, second half: replaceCurrent replaces at an offset that is an
\* occurrence of the needle in the text it replaces in.
C26_ReplaceAtOccurrenceAsStated ==
    [][ReplaceCurrent =>
          /\ currentMatch < Len(matches)
          /\ matches[currentMatch + 1]
                 \in Range(FindAllOccurrences(editableContent, findText))]_vars

---------------------------------------------------------------------------
(* C27 *)

\* C27: every step that changes the text or notifies the listener, and
\* leaves no deferred callback pending, leaves the listener holding the
\* current text of the document.
C27_ListenerSeesLatestTextAsStated ==
    [][(editableContent' # editableContent \/ listenerText' # listenerText)
         /\ timers' = <<>>
       => listenerText' = editableContent']_vars

---------------------------------------------------------------------------
(* The chart registry: the 'ready' callback of TableChartToggle's chart *)

MaxToggles == 3
MaxReady == 4

\* chartInstances holds, for each entry of window.__chartInstances, the
\* toggle whose chart was pushed; chartIndex maps each tagged toggle to the
\* __chartIndex written on the element found above its chart.
RegInit ==
    /\ chartInstances = <<>>
    /\ tagTimers = <<>>
    /\ chartIndex = <<>>
    /\ EarlierIdle /\ CvIdle /\ PdfIdle /\ DimIdle /\ QuotaIdle

\* the 'ready' callback of toggle t: push the chart and start the timer
ChartReady(t) ==
    /\ Len(chartInstances) < MaxReady
    /\ chartInstances' = Append(chartInstances, t)
    /\ tagTimers' = Append(tagTimers, t)
    /\ UNCHANGED chartIndex
    /\ UNCHANGED notRegVars

\* the index the timer callback writes: the last entry at the time it runs
TaggedIndex(instances) == IF Len(instances) # 0 THEN Len(instances) - 1 ELSE 0

\* the callback given to setTimeout(..., 500); equal delays run in the order
\* they were set
TagTimerFires ==
    /\ tagTimers # <<>>
    /\ LET t == Head(tagTimers)
       IN  chartIndex' = (t :> TaggedIndex(chartInstances)) @@ chartIndex
    /\ tagTimers' = Tail(tagTimers)
    /\ UNCHANGED chartInstances
    /\ UNCHANGED notRegVars

RegNext ==
    \/ \E t \in 1..MaxToggles : ChartReady(t)
    \/ TagTimerFires

SpecRegistry == RegInit /\ [][RegNext]_vars

\* C28: the chart index recorded for a toggle is the index of a registry
\* entry pushed for that toggle's chart.
C28_ChartIndexOwnEntryAsStated ==
    \A t \in DOMAIN chartIndex :
        /\ chartIndex[t] + 1 \in DOMAIN chartInstances
        /\ chartInstances[chartIndex[t] + 1] = t

---------------------------------------------------------------------------
(* C29 *)

\* a pending request of handleGenerate settles
GenSettles ==
    \/ \E outcome \in {"canExport", "noExports", "rejected", "fileMissing"} :
           TrackSettles(outcome)
    \/ \E outcome \in {"ok", "notOk", "noBody", "rejected", "aborted"} : FetchSettles(outcome)
    \/ ReadDone
    \/ \E errorName \in {"AbortError", "TypeError"} : ReadRejects(errorName)
    \/ \E content \in GenTexts : PostResolves(content)
    \/ PostRejects

\* Every awaited request settles: fetch and reader.read() are bound by the
\* 29 s abort timer, which is cleared only after the loop; api.post by the
\* 30 s timeout of the axios instance; trackDocumentExport by its requests to
\* the database settling.  Pressing Generate is left to the user.
SpecGenerateFair == GenInit /\ [][GenNext]_vars /\ WF_vars(GenSettles)

---------------------------------------------------------------------------
(* The export quota: trackDocumentExport of the subscription context, for a
   signed-in user who is not a super user and has a subscription *)

MaxTrackCalls == 3

FreeLimit == 0
BasicLimit == 5
OtherLimit == 20

PlanNames == {"Free", "Basic", "Pro"}

PlanLimit(plan) ==
    IF plan = "Free" THEN FreeLimit
    ELSE IF plan = "Basic" THEN BasicLimit ELSE OtherLimit

\* a call that has returned
Returned(call, result) == [call EXCEPT !.pc = "returned", !.result = result]

QuotaInit ==
    /\ planName \in PlanNames
    /\ exportRecords \in 0..PlanLimit(planName)
    /\ trackCalls = <<>>
    /\ EarlierIdle /\ CvIdle /\ PdfIdle /\ DimIdle /\ RegIdle

\* a call starts and awaits isSuperUser; counted tells what getExportsCount
\* gave it: nothing yet, the rows of the month, or the 0 of a failed query
TrackDocumentExport ==
    /\ Len(trackCalls) < MaxTrackCalls
    /\ trackCalls' = Append(trackCalls, [pc |-> "isSuperUser", counted |-> "no",
                                         result |-> FALSE])
    /\ UNCHANGED <<planName, exportRecords>>
    /\ UNCHANGED notQuotaVars

\* isSuperUser settles: false, or a rejection that the catch turns into false
SuperUserSettles(i, ok) ==
    /\ i \in DOMAIN trackCalls
    /\ trackCalls[i].pc = "isSuperUser"
    /\ trackCalls' = [trackCalls EXCEPT ![i] =
           IF ok THEN [@ EXCEPT !.pc = "getExportsCount"]
           ELSE Returned(@, FALSE)]
    /\ UNCHANGED <<planName, exportRecords>>
    /\ UNCHANGED notQuotaVars

\* getExportsCount: the rows of the month, or 0 when the query fails
GetExportsCount(ok) == IF ok THEN exportRecords ELSE 0

\* getExportsCount settles and the limit is tested
CountSettles(i, ok) ==
    /\ i \in DOMAIN trackCalls
    /\ trackCalls[i].pc = "getExportsCount"
    /\ LET call == [trackCalls[i] EXCEPT !.counted = IF ok THEN "rows" ELSE "error"]
       IN  trackCalls' = [trackCalls EXCEPT ![i] =
               IF GetExportsCount(ok) >= PlanLimit(planName)
               THEN Returned(call, FALSE)
               ELSE [call EXCEPT !.pc = "insert"]]
    /\ UNCHANGED <<planName, exportRecords>>
    /\ UNCHANGED notQuotaVars

\* the insert into document_exports settles
InsertSettles(i, ok) ==
    /\ i \in DOMAIN trackCalls
    /\ trackCalls[i].pc = "insert"
    /\ exportRecords' = IF ok THEN exportRecords + 1 ELSE exportRecords
    /\ trackCalls' = [trackCalls EXCEPT ![i] = Returned(@, ok)]
    /\ UNCHANGED planName
    /\ UNCHANGED notQuotaVars

QuotaNext ==
    \/ TrackDocumentExport
    \/ \E i \in 1..MaxTrackCalls : \E ok \in BOOLEAN : SuperUserSettles(i, ok)
    \/ \E i \in 1..MaxTrackCalls : \E ok \in BOOLEAN : CountSettles(i, ok)
    \/ \E i \in 1..MaxTrackCalls : \E ok \in BOOLEAN : InsertSettles(i, ok)

SpecQuota == QuotaInit /\ [][QuotaNext]_vars

\* C30: the export records of the month never exceed the limit of the plan.
C30_QuotaNeverExceededAsStated == exportRecords <= PlanLimit(planName)

\* C30 with every count query succeeding: the interleaving of concurrent
\* calls alone never takes the records past the limit.
C30_ConcurrentCallsWithinLimitAsStated ==
    (\A i \in DOMAIN trackCalls : trackCalls[i].counted # "error")
        => exportRecords <= PlanLimit(planName)

===========================================================================
